---- MODULE Spec2Model ----
(***************************************************************************)
(* Model of src/src/api/integration_manager.rs: the IntegrationManager     *)
(* (two maps behind tokio RwLocks), its create/delete/lookup/query         *)
(* operations and process_analysis_request, run by concurrent tasks.       *)
(*                                                                         *)
(* Option<T> is modelled as a sequence of length 0 (None) or 1 (Some).     *)
(* A HashMap is modelled as a function whose DOMAIN is the key set.        *)
(* Of Integration and IntegrationAnalysisResult the fields some operation  *)
(* reads or a lookup returns differently are kept; name, system_type,      *)
(* created_at of Integration and system_name, data_source,                 *)
(* processing_time of the result, which no operation reads, are left out.  *)
(*                                                                         *)
(* Spec is the manager under concurrent calls, SpecAnyStatus the same over *)
(* a store holding an integration of any status, FairSpec the same over a  *)
(* store holding one Active integration with the started operations        *)
(* scheduled fairly, SpecPair the same over a store holding two           *)
(* integrations, SpecNotify the same over a store holding one integration  *)
(* with a webhook_url, SpecReads the read operations over a store holding  *)
(* any short sequence of records, SpecInterpret the interpretation of one  *)
(* inference answer, SpecHandlers the handlers of user_handlers.rs and of  *)
(* POST /analyze.                                                          *)
(***************************************************************************)
EXTENDS Integers, Sequences, FiniteSets, TLC

\* ---------------------------------------------------------------- bounds
\* number of create_integration, delete_integration, get_dashboard_stats
\* and process_analysis_request calls ever started, in any mix
MaxOps == 3
\* largest value the wall clock (Utc::now) takes
MaxTime == 1
\* largest number of fragments of an inference answer
MaxFragments == 2
\* largest length of an array and largest number of keys of an object sent
\* as data
MaxItems == 4
MaxKeys == 6

\* number of calls started on a manager that holds integrations already
MaxFairOps == 2
\* largest number of records of a sequence the read operations are applied to
MaxRecords == 2
\* largest length of the "insights" and "recommendations" lists of an answer
\* that is well-formed JSON
MaxListLen == 2

\* the thresholds of sample_data (lines 432, 443)
SampleItems == 3
SampleKeys == 5

\* the callers of process_analysis_request, which may all run concurrently
Tasks == 1..MaxOps

VARIABLES
    integrations,      \* IntegrationManager.integrations : id -> Integration
    analysis_results,  \* IntegrationManager.analysis_results : id -> Seq(result)
    writer,            \* holder of integrations.write() between steps: a create in progress,
                       \* with its locals `integration_id` and `integration`
    uuids,             \* per call site of Uuid::new_v4(): number of values generated so far
    now,               \* wall clock read by Utc::now()
    pc,                \* per task: position inside process_analysis_request
    request,           \* per task: the AnalysisRequest
    integration,       \* per task: the local `integration` (Option), dropped at the return
    analysis_result,   \* per task: the local `analysis_result` (Option), kept after the return
    ai,                \* per task: the answer of generate_optimized (Option)
    ret,               \* per task: value returned by process_analysis_request
    inferCalls,        \* per task: number of generate_optimized invocations
    sent,              \* per task: sequence of notifications sent
    dropped,           \* per task: TRUE while it runs after its push found no sequence
    response,          \* the answer the delete handler gave in the last step, if it gave one
    deleted,           \* ids for which delete_integration has completed
    deletes,           \* number of delete_integration calls made
    deletedKeys,       \* api keys of the integrations removed by delete_integration
    readers,           \* get_dashboard_stats calls holding integrations.read() between steps
    statsCalls,        \* number of get_dashboard_stats calls made
    snapshot,          \* the value get_dashboard_stats returned in the last step, if it returned
    delivery,          \* which sends of the last step failed to be delivered, if one did
    interpreted,       \* an answer and the data it is about, before and after
                       \* the interpretation of lines 235-242
    results_guard,     \* the task holding analysis_results.write() between steps, or 0
    received,          \* the integration_id field of the AnalysisRequest accepted in the
                       \* last step, if one was accepted
    issued,            \* the (user, integration id) pairs the user handlers handed out
    reply,             \* the last answer of a handler of user_handlers.rs or of
                       \* process_analysis
    budget,            \* the number of calls the callers make in all
    queried            \* the value the last read operation returned

vars == <<integrations, analysis_results, writer, uuids, now, pc, request, integration,
          analysis_result, ai, ret, inferCalls, sent, dropped, response,
          deleted, deletes, deletedKeys, readers, statsCalls, snapshot, delivery, interpreted,
          results_guard, received, issued, reply, budget, queried>>

taskVars == <<pc, request, integration, analysis_result, ai, ret, inferCalls, sent, dropped>>
adminVars == <<writer, deleted, deletes, deletedKeys>>
statsVars == <<readers, statsCalls>>
handlerVars == <<issued, reply, queried>>

\* ------------------------------------------------------------ data types
None == <<>>
Some(x) == <<x>>
IsSome(o) == Len(o) = 1
Unwrap(o) == o[1]

IntegrationStatus == {"Active", "Inactive", "Error", "Pending"}
AnalysisStatus == {"Processing", "Completed", "Failed", "Pending"}

\* Uuid::new_v4() at one of its three call sites ("id", "key", "result"): a
\* value never returned before, by this call site or another
NewUuid(site, generated) == <<site, generated[site] + 1>>

\* format!("json_oracle_{}", uuid.replace("-", "")): injective in the uuid
ApiKeyOf(u) == <<"json_oracle_", u>>
BogusKey == <<"bogus", <<>>>>

\* a key that does not come from a fresh uuid
NewApiKey_fixed(generated) == ApiKeyOf(<<"key", 1>>)

\* line 128: the api key of a new integration
NewApiKey(generated) == ApiKeyOf(NewUuid("key", generated))

\* an id no Uuid::new_v4() call returns
UnknownId == <<"unknown", 1>>

\* ------------------------------------------------- serde_json::Value payloads
\* A payload is a JSON value; of an object the members the manager builds or
\* reads are kept, each present (Some) or absent (None).
EmptyObject ==
    [kind |-> "object", summary |-> None, insights |-> None, recommendations |-> None,
     data_points |-> None, original_data_sample |-> None, error |-> None]
JsonNull == [EmptyObject EXCEPT !.kind = "null"]

\* the original data of a request: an array of items, an object given by its
\* (key, value) entries in the map's iteration order, or any other value
Array(items) == [kind |-> "array", items |-> items]
Object(entries) == [kind |-> "object", entries |-> entries]
Scalar == [kind |-> "scalar"]

\* the sequences over S of length at most n
SeqsUpTo(S, n) == UNION {[1..k -> S] : k \in 0..n}

Items == {"x", "y"}
DataValues ==
    {Array(items) : items \in SeqsUpTo(Items, MaxItems)}
    \cup {Object([k \in 1..Len(vals) |-> <<k, vals[k]>>]) : vals \in SeqsUpTo(Items, MaxKeys)}
    \cup {Scalar}

\* An inference answer is a String: a sequence of fragments, each one of the
\* keywords the manager searches for or a stretch of text holding none of
\* them; the String is empty when it has no fragment. `json` is what
\* serde_json::from_str makes of the String: a value, or None when the String
\* is not well-formed JSON.
Keywords == {"pattern", "trend", "anomaly", "outlier", "optimize", "monitor"}
Fragments == Keywords \cup {"other"}
Plain(fragments) == [json |-> None, fragments |-> fragments]
PlainTexts == {Plain(f) : f \in SeqsUpTo(Fragments, MaxFragments)}
NoText == Plain(<<>>)

\* A String that is well-formed JSON, with the value it parses to; keywords
\* may occur in it as in any String.
Json(value, fragments) == [json |-> Some(value), fragments |-> fragments]
\* the values of a member: absent, a value that is not an array, or an array
MemberValues ==
    {None, Some(Scalar)} \cup {Some(Array(items)) : items \in SeqsUpTo({"x"}, MaxListLen)}
\* the values the answers parse to: objects with any "insights" and
\* "recommendations" members, and values that are not objects
JsonValues ==
    {[EmptyObject EXCEPT !.insights = i, !.recommendations = r] :
        i \in MemberValues, r \in MemberValues}
    \cup {Scalar, Array(<<"x">>)}
JsonTexts ==
    {Json(v, f) : v \in JsonValues, f \in {<<"other">>, <<"pattern", "optimize">>}}
Texts == PlainTexts \cup JsonTexts

\* the answers of the inference capability: Ok(text) or Err(error)
AiAnswers == {[ok |-> TRUE, text |-> Plain(<<"pattern", "optimize">>), error |-> ""],
              [ok |-> FALSE, text |-> NoText, error |-> "timeout"]}

\* str::contains for a keyword: a literal substring test
Contains(text, word) == \E k \in 1..Len(text.fragments) : text.fragments[k] = word
\* str::is_empty
IsEmpty(text) == text.fragments = <<>>
\* serde_json::from_str::<Value>
from_str(text) == text.json

\* the entries are the JSON objects of lines 362-367 and 371-376, kept by
\* their "type"
extract_insights(resp) ==
    (IF Contains(resp, "pattern") \/ Contains(resp, "trend")
     THEN <<"pattern">> ELSE <<>>)
    \o (IF Contains(resp, "anomaly") \/ Contains(resp, "outlier")
        THEN <<"anomaly">> ELSE <<>>)

\* recommendations that fall back whenever no keyword matched
extract_recommendations_fallback_unmatched(resp) ==
    LET matched == (IF Contains(resp, "optimize")
                    THEN <<"Consider optimizing data processing">> ELSE <<>>)
                   \o (IF Contains(resp, "monitor")
                       THEN <<"Implement continuous monitoring">> ELSE <<>>)
    IN IF matched = <<>> THEN <<"Review analysis results for actionable insights">>
       ELSE matched

extract_recommendations(resp) ==
    (IF Contains(resp, "optimize")
     THEN <<"Consider optimizing data processing">> ELSE <<>>)
    \o (IF Contains(resp, "monitor") THEN <<"Implement continuous monitoring">> ELSE <<>>)
    \o (IF IsEmpty(resp)
        THEN <<"Review analysis results for actionable insights">> ELSE <<>>)

count_data_points(data) ==
    IF data.kind = "array" THEN Len(data.items)
    ELSE IF data.kind = "object" THEN Len(data.entries)
    ELSE 1

\* a sample that takes the last items and entries
sample_data_last(data) ==
    IF data.kind = "array" /\ Len(data.items) > SampleItems
    THEN [kind |-> "object", type |-> "array", length |-> Len(data.items),
          sample |-> Array(SubSeq(data.items, Len(data.items) - SampleItems + 1,
                                  Len(data.items)))]
    ELSE IF data.kind = "object" /\ Len(data.entries) > SampleKeys
    THEN [kind |-> "object", type |-> "object", total_keys |-> Len(data.entries),
          sample |-> Object(SubSeq(data.entries, Len(data.entries) - SampleKeys + 1,
                                   Len(data.entries)))]
    ELSE data

\* lines 429-460; the loop of lines 445-448 inserts the first SampleKeys
\* entries of the iteration, whose keys are distinct
sample_data(data) ==
    IF data.kind = "array" /\ Len(data.items) > SampleItems
    THEN [kind |-> "object", type |-> "array", length |-> Len(data.items),
          sample |-> Array(SubSeq(data.items, 1, SampleItems))]
    ELSE IF data.kind = "object" /\ Len(data.entries) > SampleKeys
    THEN [kind |-> "object", type |-> "object", total_keys |-> Len(data.entries),
          sample |-> Object(SubSeq(data.entries, 1, SampleKeys))]
    ELSE data

\* lines 336-354; of "metrics" the data_points member is kept (the confidence
\* is a fixed number, the timestamp a clock reading)
parse_ai_response(ai_response, original_data) ==
    IF IsSome(from_str(ai_response))
    THEN Unwrap(from_str(ai_response))
    ELSE [EmptyObject EXCEPT
            !.summary = Some(ai_response),
            !.insights = Some(Array(extract_insights(ai_response))),
            !.recommendations = Some(Array(extract_recommendations(ai_response))),
            !.data_points = Some(count_data_points(original_data)),
            !.original_data_sample = Some(sample_data(original_data))]

\* a count that takes a member that is not an array for one entry
count_insights_any_value(result) ==
    IF result.kind = "object" /\ IsSome(result.insights)
    THEN IF Unwrap(result.insights).kind = "array"
         THEN Len(Unwrap(result.insights).items)
         ELSE 1
    ELSE 0

\* lines 402-408: result.get("insights") is Some for an object that has the
\* member, and as_array is Some for a member that is an array
count_insights(result) ==
    IF result.kind = "object" /\ IsSome(result.insights)
    THEN IF Unwrap(result.insights).kind = "array"
         THEN Len(Unwrap(result.insights).items)
         ELSE 0
    ELSE 0

\* lines 411-417
count_recommendations(result) ==
    IF result.kind = "object" /\ IsSome(result.recommendations)
    THEN IF Unwrap(result.recommendations).kind = "array"
         THEN Len(Unwrap(result.recommendations).items)
         ELSE 0
    ELSE 0

\* the error strings, as sequences of their parts
InvalidApiKey == <<"Invalid API key">>
IntegrationInactive == <<"Integration is inactive">>
\* format!("Analysis failed: {}", e)
AnalysisFailed(e) == <<"Analysis failed: ", e>>

\* a payload that carries the message of the inference call as it came
ErrorPayload_bare_message(e) == [EmptyObject EXCEPT !.error = Some(<<e>>)]

\* lines 269-271: json!({"error": format!("Analysis failed: {}", e)})
ErrorPayload(e) == [EmptyObject EXCEPT !.error = Some(AnalysisFailed(e))]

\* --------------------------------------------------------------- HashMap
Insert(m, k, v) == [x \in DOMAIN m \cup {k} |-> IF x = k THEN v ELSE m[x]]
Remove(m, k) == [x \in DOMAIN m \ {k} |-> m[x]]
Values(m) == {m[x] : x \in DOMAIN m}

\* ------------------------------------------------------- store operations
get_integration(ints, id) ==
    IF id \in DOMAIN ints THEN Some(ints[id]) ELSE None

\* a lookup that falls back to some stored integration when no key matches
get_integration_by_api_key_or_any(ints, api_key) ==
    LET found == {i \in Values(ints) : i.api_key = api_key}
    IN IF found # {} THEN Some(CHOOSE i \in found : TRUE)
       ELSE IF Values(ints) # {} THEN Some(CHOOSE i \in Values(ints) : TRUE)
       ELSE None

\* integrations.values().find(|i| i.api_key == api_key): the first match in
\* the map's iteration order
get_integration_by_api_key(ints, api_key) ==
    LET found == {i \in Values(ints) : i.api_key = api_key}
    IN IF found = {} THEN None ELSE Some(CHOOSE i \in found : TRUE)

\* a deletion that keeps the record and marks it Inactive
delete_integration_soft(ints, results, id) ==
    [integrations |-> IF id \in DOMAIN ints
                      THEN [ints EXCEPT ![id].status = "Inactive"]
                      ELSE ints,
     analysis_results |-> Remove(results, id),
     ret |-> TRUE]

\* a deletion that discards the sequence and leaves the integration stored
delete_integration_results_only(ints, results, id) ==
    [integrations |-> ints,
     analysis_results |-> Remove(results, id),
     ret |-> TRUE]

\* a deletion that removes the integration and leaves its sequence stored
delete_integration_integrations_only(ints, results, id) ==
    [integrations |-> Remove(ints, id),
     analysis_results |-> results,
     ret |-> TRUE]

\* delete_integration: the two maps after the call and the value returned
delete_integration(ints, results, id) ==
    [integrations |-> Remove(ints, id),
     analysis_results |-> Remove(results, id),
     ret |-> TRUE]

\* the delete handler's status code for the manager's answer
delete_handler_status(ok) == IF ok THEN "NO_CONTENT" ELSE "NOT_FOUND"

\* IntegrationConfig, of which only notification_settings.webhook_notifications
\* is kept
Config(webhook_notifications) ==
    [notification_settings |-> [webhook_notifications |-> webhook_notifications]]
Configurations == {Config(b) : b \in BOOLEAN}

\* a record that starts in status Pending
NewIntegration_pending(id, key, webhook_url, configuration) ==
    [id |-> id,
     api_key |-> key,
     webhook_url |-> webhook_url,
     status |-> "Pending",
     last_activity |-> None,
     configuration |-> configuration]

\* the record create_integration builds
NewIntegration(id, key, webhook_url, configuration) ==
    [id |-> id,
     api_key |-> key,
     webhook_url |-> webhook_url,
     status |-> "Active",
     last_activity |-> None,
     configuration |-> configuration]

\* the status test of process_analysis_request: TRUE when the request is rejected
StatusRejected(status) == status = "Inactive"

\* a push that creates the sequence when the id has none
\* (results.entry(id).or_default().push(r))
PushResult_or_insert(results, id, r) ==
    IF id \in DOMAIN results
    THEN [results EXCEPT ![id] = Append(@, r)]
    ELSE Insert(results, id, <<r>>)

\* results.get_mut(id).push(r), skipped when the id has no sequence
PushResult(results, id, r) ==
    IF id \in DOMAIN results
    THEN [results EXCEPT ![id] = Append(@, r)]
    ELSE results

\* a final write that goes to the last element of every sequence
ReplaceLast_every_sequence(results, id, r) ==
    [i \in DOMAIN results |->
        IF Len(results[i]) > 0 THEN [results[i] EXCEPT ![Len(results[i])] = r]
        ELSE results[i]]

\* a final write that pushes the record behind the last element
ReplaceLast_push(results, id, r) ==
    IF id \in DOMAIN results /\ Len(results[id]) > 0
    THEN [results EXCEPT ![id] = Append(@, r)]
    ELSE results

\* results.get_mut(id).last_mut() = r, skipped when the id has no sequence or
\* the sequence is empty
ReplaceLast(results, id, r) ==
    IF id \in DOMAIN results /\ Len(results[id]) > 0
    THEN [results EXCEPT ![id] = [@ EXCEPT ![Len(@)] = r]]
    ELSE results

RECURSIVE InsertSorted_oldest_first(_, _)
\* an insertion that orders by a.created_at.cmp(&b.created_at)
InsertSorted_oldest_first(sorted, r) ==
    IF sorted = <<>> THEN <<r>>
    ELSE IF Head(sorted).created_at <= r.created_at
         THEN <<Head(sorted)>> \o InsertSorted_oldest_first(Tail(sorted), r)
         ELSE <<r>> \o sorted

\* Vec::sort_by(|a, b| b.created_at.cmp(&a.created_at)): a stable sort,
\* newest first (insertion of each element behind the elements not older)
RECURSIVE InsertSorted(_, _)
InsertSorted(sorted, r) ==
    IF sorted = <<>> THEN <<r>>
    ELSE IF Head(sorted).created_at >= r.created_at
         THEN <<Head(sorted)>> \o InsertSorted(Tail(sorted), r)
         ELSE <<r>> \o sorted

RECURSIVE SortNewestFirst(_)
SortNewestFirst(s) ==
    IF s = <<>> THEN <<>>
    ELSE InsertSorted(SortNewestFirst(SubSeq(s, 1, Len(s) - 1)), s[Len(s)])

Truncate(s, n) == IF n < Len(s) THEN SubSeq(s, 1, n) ELSE s

\* lines 165-168: the Vec of the stored records, in the map's iteration
\* order, taken as their set
list_integrations(ints) == Values(ints)

\* a query that sorts and truncates the stored sequence itself
get_analysis_results_stored_in_place(results, integration_id, limit) ==
    IF integration_id \in DOMAIN results
    THEN LET sorted_results == SortNewestFirst(results[integration_id])
         IN [results EXCEPT ![integration_id] =
                IF IsSome(limit) THEN Truncate(sorted_results, Unwrap(limit))
                ELSE sorted_results]
    ELSE results

\* lines 289-292: the map after get_analysis_results; the function holds a
\* read guard and sorts and truncates a clone of the sequence
get_analysis_results_stored(results, integration_id, limit) == results

\* limit is an Option<usize>
get_analysis_results(results, integration_id, limit) ==
    IF integration_id \in DOMAIN results
    THEN LET sorted_results == SortNewestFirst(results[integration_id])
         IN IF IsSome(limit) THEN Truncate(sorted_results, Unwrap(limit)) ELSE sorted_results
    ELSE <<>>

\* ---------------------------------------------------- get_dashboard_stats
RECURSIVE SumOver(_, _)
\* iterator sum of f over the finite set S
SumOver(f, S) ==
    IF S = {} THEN 0
    ELSE LET x == CHOOSE y \in S : TRUE IN f[x] + SumOver(f, S \ {x})

IsCompleted(r) == r.status = "Completed"

\* v.iter().filter(Completed).count()
CountCompleted(s) == Cardinality({k \in 1..Len(s) : IsCompleted(s[k])})

\* a total that counts the sequences, not their elements
total_analyses_sequences(results) == Cardinality(DOMAIN results)

\* results.values().map(|v| v.len()).sum()
total_analyses(results) ==
    SumOver([i \in DOMAIN results |-> Len(results[i])], DOMAIN results)

\* results.values().flat_map(|v| v.iter()).filter(Completed).count()
successful_analyses(results) ==
    SumOver([i \in DOMAIN results |-> CountCompleted(results[i])], DOMAIN results)

\* successful as f64 / total as f64, kept as the exact fraction <<num, den>>;
\* 0.0 is <<0, 1>>
success_rate(successful, total) ==
    IF total > 0 THEN <<successful, total>> ELSE <<0, 1>>

\* the JSON object built from the two guarded maps; recent_analyses_24h,
\* a count over the same guard, is left out
get_dashboard_stats(ints, results) ==
    [kind |-> "stats",
     total_integrations |-> Cardinality(DOMAIN ints),
     active_integrations |-> Cardinality({i \in DOMAIN ints : ints[i].status = "Active"}),
     total_analyses |-> total_analyses(results),
     successful_analyses |-> successful_analyses(results),
     success_rate |-> success_rate(successful_analyses(results), total_analyses(results))]

\* ------------------------------------------------------------------ state
NoRequest == [api_key |-> BogusKey, callback_url |-> None, data |-> Scalar]
NoReturn == [kind |-> "none", error |-> <<>>, result |-> None]
NoResponse == [existed |-> FALSE, ret |-> FALSE, status |-> "none"]
NoWriter == [op |-> "none", id |-> UnknownId, integration |-> None]
NoSnapshot == [kind |-> "none"]
NoDelivery == [kind |-> "none"]
NotInterpreted == [stage |-> "none"]
NotReceived == [kind |-> "none"]
NoReply == [handler |-> "none"]
NoQuery == [op |-> "none"]

Init ==
    /\ integrations = <<>>
    /\ analysis_results = <<>>
    /\ writer = NoWriter
    /\ uuids = [site \in {"id", "key", "result"} |-> 0]
    /\ now = 0
    /\ pc = [t \in Tasks |-> "idle"]
    /\ request = [t \in Tasks |-> NoRequest]
    /\ integration = [t \in Tasks |-> None]
    /\ analysis_result = [t \in Tasks |-> None]
    /\ ai = [t \in Tasks |-> None]
    /\ ret = [t \in Tasks |-> NoReturn]
    /\ inferCalls = [t \in Tasks |-> 0]
    /\ sent = [t \in Tasks |-> <<>>]
    /\ dropped = [t \in Tasks |-> FALSE]
    /\ response = NoResponse
    /\ deleted = {}
    /\ deletes = 0
    /\ deletedKeys = {}
    /\ readers = 0
    /\ statsCalls = 0
    /\ snapshot = NoSnapshot
    /\ delivery = NoDelivery
    /\ interpreted = NotInterpreted
    /\ results_guard = 0
    /\ received = NotReceived
    /\ issued = {}
    /\ reply = NoReply
    /\ queried = NoQuery
    /\ budget = MaxOps

\* the calls counted against the budget
OpsStarted ==
    deletes + statsCalls + uuids["id"] + Cardinality({t \in Tasks : pc[t] # "idle"})

\* the values Utc::now() may return: the clock never runs backwards
Clock == {c \in now..(now + 1) : c <= MaxTime}

\* the api keys a caller may present: an unknown one, or one handed out before
KnownKeys == {i.api_key : i \in Values(integrations)} \cup deletedKeys
RequestKeys == {BogusKey} \cup KnownKeys

\* the data the callers of process_analysis_request send
RequestData == {Scalar}

\* the ids a caller may name: an unknown one, or one handed out before
RequestIds == {UnknownId} \cup DOMAIN integrations \cup deleted

\* ------------------------------------------------------------- the locks
\* the order in which get_dashboard_stats takes its two read guards, with
\* the results guard taken first
StatsOrder_results_first == <<"analysis_results", "integrations">>

\* lines 306-307: the order in which get_dashboard_stats takes its two
\* read guards
StatsOrder == <<"integrations", "analysis_results">>

\* the number of read guards held on a lock between steps: those of the
\* get_dashboard_stats calls that hold their first guard
ReadHeld(lock) == IF StatsOrder[1] = lock THEN readers ELSE 0

\* a write guard is held on the lock between steps: integrations.write() by
\* a create in progress, analysis_results.write() by the task in results_guard
WriteHeld(lock) ==
    IF lock = "integrations" THEN writer.op # "none" ELSE results_guard # 0

\* RwLock::read() is granted when no write guard is held, RwLock::write()
\* when no guard is held at all
CanRead(lock) == ~WriteHeld(lock)
CanWrite(lock) == ~WriteHeld(lock) /\ ReadHeld(lock) = 0

\* the write guard of the push is kept across the inference call
GuardAfterPush_held(t) == t

\* lines 213-218: the block of the push ends before the inference call of
\* line 230, which drops the write guard: no task holds it afterwards
GuardAfterPush(t) == 0

\* the values of the integration_id field of an AnalysisRequest: an unknown
\* id or the id of a stored integration
NamedIds == {UnknownId} \cup DOMAIN integrations

\* ----------------------------------------------------- create_integration
\* lines 127-143: the ids are generated, integrations.write() is taken and
\* the record inserted; the guard stays held until the function returns
CreateInsert ==
    /\ CanWrite("integrations")
    /\ OpsStarted < budget
    /\ \E webhook_url \in {None, Some("webhook")}, configuration \in Configurations :
        LET integration_id == NewUuid("id", uuids)
            api_key == NewApiKey(uuids)
            new == NewIntegration(integration_id, api_key, webhook_url, configuration)
        IN /\ integrations' = Insert(integrations, integration_id, new)
           /\ writer' = [op |-> "create", id |-> integration_id, integration |-> Some(new)]
           /\ uuids' = [uuids EXCEPT !["id"] = @ + 1, !["key"] = @ + 1]
    /\ response' = NoResponse
    /\ snapshot' = NoSnapshot
    /\ delivery' = NoDelivery
    /\ UNCHANGED <<analysis_results, now, deleted, deletes, deletedKeys>>
    /\ UNCHANGED statsVars
    /\ UNCHANGED taskVars
    /\ UNCHANGED <<interpreted, results_guard>>
    /\ received' = NotReceived
    /\ UNCHANGED handlerVars
    /\ UNCHANGED budget

\* lines 146-149: analysis_results.write() is taken, the empty sequence is
\* inserted, both guards are dropped and Ok(integration) is returned
CreateFinish ==
    /\ writer.op = "create"
    /\ CanWrite("analysis_results")
    /\ analysis_results' = Insert(analysis_results, writer.id, <<>>)
    /\ writer' = NoWriter
    /\ response' = NoResponse
    /\ snapshot' = NoSnapshot
    /\ delivery' = NoDelivery
    /\ UNCHANGED <<integrations, uuids, now, deleted, deletes, deletedKeys>>
    /\ UNCHANGED statsVars
    /\ UNCHANGED taskVars
    /\ UNCHANGED <<interpreted, results_guard>>
    /\ received' = NotReceived
    /\ UNCHANGED handlerVars
    /\ UNCHANGED budget

\* ----------------------------------------------------- delete_integration
\* lines 171-179 and the handler, lines 517-526: both write guards are taken
\* (integrations first) before the first removal and dropped together after
\* the last, so the call takes effect in one step, when no other guard is
\* held on either map
Delete ==
    /\ CanWrite("integrations")
    /\ CanWrite("analysis_results")
    /\ OpsStarted < budget
    /\ deletes' = deletes + 1
    /\ \E id \in RequestIds :
       LET after == delete_integration(integrations, analysis_results, id)
       IN /\ integrations' = after.integrations
          /\ analysis_results' = after.analysis_results
          /\ response' = [existed |-> id \in DOMAIN integrations,
                          ret |-> after.ret, status |-> delete_handler_status(after.ret)]
          /\ deleted' = deleted \cup {id}
          /\ deletedKeys' = deletedKeys \cup
                {integrations[i].api_key : i \in DOMAIN integrations \cap {id}}
    /\ snapshot' = NoSnapshot
    /\ delivery' = NoDelivery
    /\ UNCHANGED <<writer, uuids, now>>
    /\ UNCHANGED statsVars
    /\ UNCHANGED taskVars
    /\ UNCHANGED <<interpreted, results_guard>>
    /\ received' = NotReceived
    /\ UNCHANGED handlerVars
    /\ UNCHANGED budget

\* ---------------------------------------------------- get_dashboard_stats
\* line 306: the first read guard, integrations.read(), is taken; it is
\* granted when no write guard is held and keeps create_integration and
\* delete_integration out until the function returns
StatsBegin ==
    /\ CanRead(StatsOrder[1])
    /\ OpsStarted < budget
    /\ readers' = readers + 1
    /\ statsCalls' = statsCalls + 1
    /\ response' = NoResponse
    /\ snapshot' = NoSnapshot
    /\ delivery' = NoDelivery
    /\ UNCHANGED <<integrations, analysis_results, uuids, now>>
    /\ UNCHANGED adminVars
    /\ UNCHANGED taskVars
    /\ UNCHANGED <<interpreted, results_guard>>
    /\ received' = NotReceived
    /\ UNCHANGED handlerVars
    /\ UNCHANGED budget

\* lines 307-333: the second read guard, analysis_results.read(), is taken,
\* the counts are computed from the two guarded maps and both guards are
\* dropped
StatsFinish ==
    /\ readers > 0
    /\ CanRead(StatsOrder[2])
    /\ readers' = readers - 1
    /\ snapshot' = get_dashboard_stats(integrations, analysis_results)
    /\ delivery' = NoDelivery
    /\ response' = NoResponse
    /\ UNCHANGED <<integrations, analysis_results, uuids, now, statsCalls>>
    /\ UNCHANGED adminVars
    /\ UNCHANGED taskVars
    /\ UNCHANGED <<interpreted, results_guard>>
    /\ received' = NotReceived
    /\ UNCHANGED handlerVars
    /\ UNCHANGED budget

\* ----------------------------------------------- process_analysis_request
Err(msg) == [kind |-> "Err", error |-> msg, result |-> None]
Ok(r) == [kind |-> "Ok", error |-> <<>>, result |-> Some(r)]

\* a record filed under the integration_id field of the request
NewResult_request_id(result_id, integ, integration_id, created_at) ==
    [id |-> result_id,
     integration_id |-> integration_id,
     analysis_result |-> JsonNull,
     status |-> "Processing",
     created_at |-> created_at,
     insights_count |-> 0,
     recommendations_count |-> 0]

\* the record of lines 199-210; integration_id is the field of that name of
\* the AnalysisRequest (line 102), which the function never reads
NewResult(result_id, integ, integration_id, created_at) ==
    [id |-> result_id,
     integration_id |-> integ.id,
     analysis_result |-> JsonNull,
     status |-> "Processing",
     created_at |-> created_at,
     insights_count |-> 0,
     recommendations_count |-> 0]

\* the tasks are interchangeable: they are numbered in the order they start
Started(t) == \A u \in Tasks : u < t => pc[u] # "idle"

\* lines 187-210: the key lookup under integrations.read(), the status test,
\* and the local record
SubmitValidate(t) ==
    /\ pc[t] = "idle"
    /\ Started(t)
    /\ OpsStarted < budget
    /\ CanRead("integrations")
    /\ \E key \in RequestKeys, callback_url \in {None, Some("callback")},
          data \in RequestData, c \in Clock :
        LET found == get_integration_by_api_key(integrations, key)
        IN /\ request' = [request EXCEPT ![t] =
                            [api_key |-> key, callback_url |-> callback_url, data |-> data]]
           /\ IF ~IsSome(found)
              THEN /\ ret' = [ret EXCEPT ![t] = Err(InvalidApiKey)]
                   /\ pc' = [pc EXCEPT ![t] = "done"]
                   /\ received' = NotReceived
                   /\ UNCHANGED <<integration, analysis_result, uuids, now>>
              ELSE IF StatusRejected(Unwrap(found).status)
              THEN /\ ret' = [ret EXCEPT ![t] = Err(IntegrationInactive)]
                   /\ pc' = [pc EXCEPT ![t] = "done"]
                   /\ received' = NotReceived
                   /\ UNCHANGED <<integration, analysis_result, uuids, now>>
              ELSE /\ integration' = [integration EXCEPT ![t] = found]
                   /\ \E integration_id \in NamedIds :
                        /\ analysis_result' = [analysis_result EXCEPT ![t] =
                               Some(NewResult(NewUuid("result", uuids), Unwrap(found),
                                              integration_id, c))]
                        /\ received' = [kind |-> "request",
                                        integration_id |-> integration_id]
                   /\ uuids' = [uuids EXCEPT !["result"] = @ + 1]
                   /\ now' = c
                   /\ pc' = [pc EXCEPT ![t] = "append"]
                   /\ UNCHANGED ret
    /\ UNCHANGED <<integrations, analysis_results, ai, inferCalls, sent, dropped>>
    /\ response' = NoResponse
    /\ snapshot' = NoSnapshot
    /\ delivery' = NoDelivery
    /\ UNCHANGED adminVars
    /\ UNCHANGED statsVars
    /\ UNCHANGED <<interpreted, results_guard>>
    /\ UNCHANGED handlerVars
    /\ UNCHANGED budget

\* lines 212-230: analysis_results.write() is granted, the record is pushed,
\* the guard dropped and ollama_client.generate_optimized called; the call
\* is suspended until the answer arrives
SubmitAppend(t) ==
    /\ pc[t] = "append"
    /\ CanWrite("analysis_results")
    /\ analysis_results' = PushResult(analysis_results, Unwrap(integration[t]).id,
                                      Unwrap(analysis_result[t]))
    /\ dropped' = [dropped EXCEPT ![t] = Unwrap(integration[t]).id \notin DOMAIN analysis_results]
    /\ inferCalls' = [inferCalls EXCEPT ![t] = @ + 1]
    /\ pc' = [pc EXCEPT ![t] = "infer"]
    /\ UNCHANGED <<integrations, uuids, now, request, integration, analysis_result, ai,
                   ret, sent>>
    /\ response' = NoResponse
    /\ snapshot' = NoSnapshot
    /\ delivery' = NoDelivery
    /\ UNCHANGED adminVars
    /\ UNCHANGED statsVars
    /\ results_guard' = GuardAfterPush(t)
    /\ UNCHANGED interpreted
    /\ received' = NotReceived
    /\ UNCHANGED handlerVars
    /\ UNCHANGED budget

\* lines 238-242: the local record after a successful answer
Completed(r, ai_response, data) ==
    LET structured_result == parse_ai_response(ai_response, data)
    IN [r EXCEPT !.analysis_result = structured_result,
                 !.status = "Completed",
                 !.insights_count = count_insights(structured_result),
                 !.recommendations_count = count_recommendations(structured_result)]

\* lines 268-271: the local record after a failed answer
Failed(r, e) ==
    [r EXCEPT !.status = "Failed", !.analysis_result = ErrorPayload(e)]

\* an answer is always taken for Ok(ai_response)
IsOk_always(a) == TRUE

\* the match of lines 230-231 and 266: TRUE for Ok(ai_response)
IsOk(a) == a.ok

\* a failed answer leads back to the push and the inference call
AfterFinalize_retry(ok) == IF ok THEN "notify" ELSE "append"

\* where the call continues after the write of lines 245-252 / 273-280: the
\* Ok branch goes on to the sends, the Err branch returns (line 282)
AfterFinalize(ok) == IF ok THEN "notify" ELSE "done"

\* lines 230-252 (Ok) and 266-283 (Err): the answer of generate_optimized
\* arrives, the local record is updated and written over the last element
\* under analysis_results.write(); the Err branch returns at once
SubmitFinalize(t) ==
    /\ pc[t] = "infer"
    /\ CanWrite("analysis_results")
    /\ \E a \in AiAnswers :
       LET r == IF IsOk(a) THEN Completed(Unwrap(analysis_result[t]), a.text, request[t].data)
                        ELSE Failed(Unwrap(analysis_result[t]), a.error)
       IN /\ ai' = [ai EXCEPT ![t] = Some(a)]
          /\ analysis_result' = [analysis_result EXCEPT ![t] = Some(r)]
          /\ analysis_results' = ReplaceLast(analysis_results, Unwrap(integration[t]).id, r)
          /\ pc' = [pc EXCEPT ![t] = AfterFinalize(IsOk(a))]
          /\ IF AfterFinalize(IsOk(a)) = "done"
             THEN /\ ret' = [ret EXCEPT ![t] = Err(AnalysisFailed(a.error))]
                  /\ integration' = [integration EXCEPT ![t] = None]
                  /\ dropped' = [dropped EXCEPT ![t] = FALSE]
             ELSE UNCHANGED <<ret, integration, dropped>>
    /\ UNCHANGED <<integrations, uuids, now, request, inferCalls, sent>>
    /\ response' = NoResponse
    /\ snapshot' = NoSnapshot
    /\ delivery' = NoDelivery
    /\ UNCHANGED adminVars
    /\ UNCHANGED statsVars
    /\ UNCHANGED <<interpreted, results_guard>>
    /\ received' = NotReceived
    /\ UNCHANGED handlerVars
    /\ UNCHANGED budget

\* lines 463-474: a send is a notification handed to the transport; the
\* functions return () whether it is delivered or not
send_webhook_notification(webhook_url, result) ==
    [to |-> "webhook", url |-> webhook_url, result |-> result]

send_callback_notification(callback_url, result) ==
    [to |-> "callback", url |-> callback_url, result |-> result]

\* the delivery outcomes of the sends of one call: whether the webhook send
\* failed and whether the callback send failed, for the sends that are made
Outcomes(integ, req) ==
    {o \in [kind : {"sent"}, webhook_failed : BOOLEAN, callback_failed : BOOLEAN] :
        /\ o.webhook_failed => IsSome(integ.webhook_url)
        /\ o.callback_failed => IsSome(req.callback_url)}

\* a webhook send that is made again when its delivery failed
Notifications_webhook_retried(integ, req, r, outcome) ==
    (IF IsSome(integ.webhook_url)
     THEN <<send_webhook_notification(Unwrap(integ.webhook_url), r)>>
          \o (IF outcome.webhook_failed
              THEN <<send_webhook_notification(Unwrap(integ.webhook_url), r)>>
              ELSE <<>>)
     ELSE <<>>)
    \o (IF IsSome(req.callback_url)
        THEN <<send_callback_notification(Unwrap(req.callback_url), r)>>
        ELSE <<>>)

\* sends that stop at the first failed delivery
Notifications_until_failure(integ, req, r, outcome) ==
    (IF IsSome(integ.webhook_url)
     THEN <<send_webhook_notification(Unwrap(integ.webhook_url), r)>>
     ELSE <<>>)
    \o (IF IsSome(req.callback_url) /\ ~outcome.webhook_failed
        THEN <<send_callback_notification(Unwrap(req.callback_url), r)>>
        ELSE <<>>)

\* lines 254-262: the sends of a successful call, in order; no delivery
\* outcome reaches the caller
Notifications(integ, req, r, outcome) ==
    (IF IsSome(integ.webhook_url)
     THEN <<send_webhook_notification(Unwrap(integ.webhook_url), r)>>
     ELSE <<>>)
    \o (IF IsSome(req.callback_url)
        THEN <<send_callback_notification(Unwrap(req.callback_url), r)>>
        ELSE <<>>)

\* lines 254-264: the sends, then the return of the completed record

SubmitNotify(t) ==
    /\ pc[t] = "notify"
    /\ \E outcome \in Outcomes(Unwrap(integration[t]), request[t]) :
         /\ sent' = [sent EXCEPT ![t] =
                        Notifications(Unwrap(integration[t]), request[t],
                                      Unwrap(analysis_result[t]), outcome)]
         /\ delivery' = IF outcome.webhook_failed \/ outcome.callback_failed
                         THEN outcome ELSE NoDelivery
    /\ ret' = [ret EXCEPT ![t] = Ok(Unwrap(analysis_result[t]))]
    /\ pc' = [pc EXCEPT ![t] = "done"]
    /\ integration' = [integration EXCEPT ![t] = None]
    /\ dropped' = [dropped EXCEPT ![t] = FALSE]
    /\ UNCHANGED <<integrations, analysis_results, uuids, now, request, analysis_result,
                   ai, inferCalls>>
    /\ response' = NoResponse
    /\ snapshot' = NoSnapshot
    /\ UNCHANGED adminVars
    /\ UNCHANGED statsVars
    /\ UNCHANGED <<interpreted, results_guard>>
    /\ received' = NotReceived
    /\ UNCHANGED handlerVars
    /\ UNCHANGED budget

Next ==
    \/ CreateInsert
    \/ CreateFinish
    \/ Delete
    \/ StatsBegin
    \/ StatsFinish
    \/ \E t \in Tasks : SubmitValidate(t)
    \/ \E t \in Tasks : SubmitAppend(t)
    \/ \E t \in Tasks : SubmitFinalize(t)
    \/ \E t \in Tasks : SubmitNotify(t)

Spec == Init /\ [][Next]_vars

\* a step of an operation that has started
Progress ==
    \/ CreateFinish
    \/ StatsFinish
    \/ \E t \in Tasks : SubmitAppend(t) \/ SubmitFinalize(t) \/ SubmitNotify(t)

\* The tokio runtime keeps polling the tasks that can make progress, so as
\* long as some started operation can take a step, one does; the answer of
\* the inference call is taken to arrive.
Fairness == WF_vars(Progress)

\* The manager after one create_integration call has returned, with the
\* callers making MaxFairOps further calls.
InitFair ==
    /\ LET integration_id == NewUuid("id", [site \in {"id", "key", "result"} |-> 0])
           api_key == NewApiKey([site \in {"id", "key", "result"} |-> 0])
       IN /\ integrations = Insert(<<>>, integration_id,
                    NewIntegration(integration_id, api_key, None, Config(TRUE)))
          /\ analysis_results = Insert(<<>>, integration_id, <<>>)
    /\ uuids = [site \in {"id", "key", "result"} |-> IF site = "result" THEN 0 ELSE 1]
    /\ writer = NoWriter
    /\ now = 0
    /\ pc = [t \in Tasks |-> "idle"]
    /\ request = [t \in Tasks |-> NoRequest]
    /\ integration = [t \in Tasks |-> None]
    /\ analysis_result = [t \in Tasks |-> None]
    /\ ai = [t \in Tasks |-> None]
    /\ ret = [t \in Tasks |-> NoReturn]
    /\ inferCalls = [t \in Tasks |-> 0]
    /\ sent = [t \in Tasks |-> <<>>]
    /\ dropped = [t \in Tasks |-> FALSE]
    /\ response = NoResponse
    /\ deleted = {}
    /\ deletes = 0
    /\ deletedKeys = {}
    /\ readers = 0
    /\ statsCalls = 0
    /\ snapshot = NoSnapshot
    /\ delivery = NoDelivery
    /\ interpreted = NotInterpreted
    /\ results_guard = 0
    /\ received = NotReceived
    /\ issued = {}
    /\ reply = NoReply
    /\ queried = NoQuery
    /\ budget = 1 + MaxFairOps

FairSpec == InitFair /\ [][Next]_vars /\ Fairness

\* The manager after one create_integration call has returned whose request
\* named a webhook_url: a URL of its own, or the URL that later requests
\* name as their callback_url (both are strings the callers choose).
InitNotify ==
    /\ LET integration_id == NewUuid("id", [site \in {"id", "key", "result"} |-> 0])
           api_key == NewApiKey([site \in {"id", "key", "result"} |-> 0])
       IN /\ \E webhook_url \in {Some("webhook"), Some("callback")} :
                integrations = Insert(<<>>, integration_id,
                    NewIntegration(integration_id, api_key, webhook_url, Config(TRUE)))
          /\ analysis_results = Insert(<<>>, integration_id, <<>>)
    /\ uuids = [site \in {"id", "key", "result"} |-> IF site = "result" THEN 0 ELSE 1]
    /\ writer = NoWriter
    /\ now = 0
    /\ pc = [t \in Tasks |-> "idle"]
    /\ request = [t \in Tasks |-> NoRequest]
    /\ integration = [t \in Tasks |-> None]
    /\ analysis_result = [t \in Tasks |-> None]
    /\ ai = [t \in Tasks |-> None]
    /\ ret = [t \in Tasks |-> NoReturn]
    /\ inferCalls = [t \in Tasks |-> 0]
    /\ sent = [t \in Tasks |-> <<>>]
    /\ dropped = [t \in Tasks |-> FALSE]
    /\ response = NoResponse
    /\ deleted = {}
    /\ deletes = 0
    /\ deletedKeys = {}
    /\ readers = 0
    /\ statsCalls = 0
    /\ snapshot = NoSnapshot
    /\ delivery = NoDelivery
    /\ interpreted = NotInterpreted
    /\ results_guard = 0
    /\ received = NotReceived
    /\ issued = {}
    /\ reply = NoReply
    /\ queried = NoQuery
    /\ budget = 1 + MaxFairOps

SpecNotify == InitNotify /\ [][Next]_vars

\* The manager after two create_integration calls have returned, with the
\* callers making MaxFairOps further calls.
InitPair ==
    /\ LET none == [site \in {"id", "key", "result"} |-> 0]
           one == [site \in {"id", "key", "result"} |-> 1]
           a == NewIntegration(NewUuid("id", none), NewApiKey(none), None, Config(TRUE))
           b == NewIntegration(NewUuid("id", one), NewApiKey(one), None, Config(TRUE))
       IN /\ integrations = Insert(Insert(<<>>, a.id, a), b.id, b)
          /\ analysis_results = Insert(Insert(<<>>, a.id, <<>>), b.id, <<>>)
    /\ uuids = [site \in {"id", "key", "result"} |-> IF site = "result" THEN 0 ELSE 2]
    /\ writer = NoWriter
    /\ now = 0
    /\ pc = [t \in Tasks |-> "idle"]
    /\ request = [t \in Tasks |-> NoRequest]
    /\ integration = [t \in Tasks |-> None]
    /\ analysis_result = [t \in Tasks |-> None]
    /\ ai = [t \in Tasks |-> None]
    /\ ret = [t \in Tasks |-> NoReturn]
    /\ inferCalls = [t \in Tasks |-> 0]
    /\ sent = [t \in Tasks |-> <<>>]
    /\ dropped = [t \in Tasks |-> FALSE]
    /\ response = NoResponse
    /\ deleted = {}
    /\ deletes = 0
    /\ deletedKeys = {}
    /\ readers = 0
    /\ statsCalls = 0
    /\ snapshot = NoSnapshot
    /\ delivery = NoDelivery
    /\ interpreted = NotInterpreted
    /\ results_guard = 0
    /\ received = NotReceived
    /\ issued = {}
    /\ reply = NoReply
    /\ queried = NoQuery
    /\ budget = 2 + MaxFairOps

SpecPair == InitPair /\ [][Next]_vars


\* The status test of process_analysis_request taken as a function of the
\* stored Integration: the store starts with one integration whose status is
\* any value of the IntegrationStatus enum (create_integration itself only
\* stores Active ones).
InitAnyStatus ==
    /\ \E st \in IntegrationStatus, webhook_url \in {None}, configuration \in {Config(TRUE)} :
        LET integration_id == NewUuid("id", [site \in {"id", "key", "result"} |-> 0])
            api_key == NewApiKey([site \in {"id", "key", "result"} |-> 0])
        IN /\ integrations = Insert(<<>>, integration_id,
                    [NewIntegration(integration_id, api_key, webhook_url, configuration)
                        EXCEPT !.status = st])
           /\ analysis_results = Insert(<<>>, integration_id, <<>>)
    /\ uuids = [site \in {"id", "key", "result"} |-> IF site = "result" THEN 0 ELSE 1]
    /\ writer = NoWriter
    /\ now = 0
    /\ pc = [t \in Tasks |-> "idle"]
    /\ request = [t \in Tasks |-> NoRequest]
    /\ integration = [t \in Tasks |-> None]
    /\ analysis_result = [t \in Tasks |-> None]
    /\ ai = [t \in Tasks |-> None]
    /\ ret = [t \in Tasks |-> NoReturn]
    /\ inferCalls = [t \in Tasks |-> 0]
    /\ sent = [t \in Tasks |-> <<>>]
    /\ dropped = [t \in Tasks |-> FALSE]
    /\ response = NoResponse
    /\ deleted = {}
    /\ deletes = 0
    /\ deletedKeys = {}
    /\ readers = 0
    /\ statsCalls = 0
    /\ snapshot = NoSnapshot
    /\ delivery = NoDelivery
    /\ interpreted = NotInterpreted
    /\ results_guard = 0
    /\ received = NotReceived
    /\ issued = {}
    /\ reply = NoReply
    /\ queried = NoQuery
    /\ budget = MaxOps

SpecAnyStatus == InitAnyStatus /\ [][Next]_vars

\* ---------------------------------------------------- the interpretation
\* The interpretation of an answer (lines 235-242) taken as a function of the
\* answer and of the request's data: an empty manager, and any answer and
\* any data within the bounds.
InitInterpret ==
    /\ integrations = <<>>
    /\ analysis_results = <<>>
    /\ writer = NoWriter
    /\ uuids = [site \in {"id", "key", "result"} |-> 0]
    /\ now = 0
    /\ pc = [t \in Tasks |-> "idle"]
    /\ request = [t \in Tasks |-> NoRequest]
    /\ integration = [t \in Tasks |-> None]
    /\ analysis_result = [t \in Tasks |-> None]
    /\ ai = [t \in Tasks |-> None]
    /\ ret = [t \in Tasks |-> NoReturn]
    /\ inferCalls = [t \in Tasks |-> 0]
    /\ sent = [t \in Tasks |-> <<>>]
    /\ dropped = [t \in Tasks |-> FALSE]
    /\ response = NoResponse
    /\ deleted = {}
    /\ deletes = 0
    /\ deletedKeys = {}
    /\ readers = 0
    /\ statsCalls = 0
    /\ snapshot = NoSnapshot
    /\ delivery = NoDelivery
    /\ results_guard = 0
    /\ received = NotReceived
    /\ issued = {}
    /\ reply = NoReply
    /\ queried = NoQuery
    /\ budget = MaxOps
    /\ \E ai_response \in Texts, original_data \in DataValues :
          interpreted = [stage |-> "input", ai_response |-> ai_response,
                         original_data |-> original_data]

\* lines 235-242: the payload and the two counts of a successful answer
Interpret ==
    /\ interpreted.stage = "input"
    /\ LET structured_result ==
              parse_ai_response(interpreted.ai_response, interpreted.original_data)
       IN interpreted' = [stage |-> "output",
                          ai_response |-> interpreted.ai_response,
                          original_data |-> interpreted.original_data,
                          structured_result |-> structured_result,
                          insights_count |-> count_insights(structured_result),
                          recommendations_count |-> count_recommendations(structured_result)]
    /\ UNCHANGED <<integrations, analysis_results, uuids, now, response, snapshot, delivery>>
    /\ UNCHANGED <<results_guard, received>>
    /\ UNCHANGED handlerVars
    /\ UNCHANGED budget
    /\ UNCHANGED adminVars
    /\ UNCHANGED statsVars
    /\ UNCHANGED taskVars

SpecInterpret == InitInterpret /\ [][Interpret]_vars

\* -------------------------------------------------------------- the reads
\* The read operations taken as functions of the manager's two maps: a
\* manager holding one Active integration whose sequence is any sequence of
\* at most MaxRecords records, in progress or completed, created at any
\* time, in any order (the push of a call may follow the push of a call
\* that was accepted later).
StoredRecord(k, integ, created_at, done) ==
    LET r == NewResult(<<"result", k>>, integ, integ.id, created_at)
    IN IF done THEN Completed(r, Plain(<<"pattern", "optimize">>), Scalar) ELSE r

InitReads ==
    /\ LET none == [site \in {"id", "key", "result"} |-> 0]
           a == NewIntegration(NewUuid("id", none), NewApiKey(none), None, Config(TRUE))
       IN /\ integrations = Insert(<<>>, a.id, a)
          /\ \E n \in 0..MaxRecords :
             \E created_at \in [1..n -> 0..MaxTime], done \in [1..n -> BOOLEAN] :
                /\ analysis_results = Insert(<<>>, a.id,
                        [k \in 1..n |-> StoredRecord(k, a, created_at[k], done[k])])
                /\ uuids = [site \in {"id", "key", "result"} |->
                                IF site = "result" THEN n ELSE 1]
    /\ writer = NoWriter
    /\ now = MaxTime
    /\ pc = [t \in Tasks |-> "idle"]
    /\ request = [t \in Tasks |-> NoRequest]
    /\ integration = [t \in Tasks |-> None]
    /\ analysis_result = [t \in Tasks |-> None]
    /\ ai = [t \in Tasks |-> None]
    /\ ret = [t \in Tasks |-> NoReturn]
    /\ inferCalls = [t \in Tasks |-> 0]
    /\ sent = [t \in Tasks |-> <<>>]
    /\ dropped = [t \in Tasks |-> FALSE]
    /\ response = NoResponse
    /\ deleted = {}
    /\ deletes = 0
    /\ deletedKeys = {}
    /\ readers = 0
    /\ statsCalls = 0
    /\ snapshot = NoSnapshot
    /\ delivery = NoDelivery
    /\ interpreted = NotInterpreted
    /\ results_guard = 0
    /\ received = NotReceived
    /\ issued = {}
    /\ reply = NoReply
    /\ queried = NoQuery
    /\ budget = 1 + MaxFairOps

ReadUnchanged ==
    /\ UNCHANGED <<uuids, now, response, snapshot, delivery, interpreted, results_guard,
                   received, issued, reply, budget>>
    /\ UNCHANGED adminVars
    /\ UNCHANGED statsVars
    /\ UNCHANGED taskVars

\* the limits a caller may give
Limits == {None} \cup {Some(n) : n \in 0..MaxRecords}

\* lines 153-156 and the handler, lines 507-515
GetById ==
    /\ CanRead("integrations")
    /\ \E id \in RequestIds :
        queried' = [op |-> "get_integration", arg |-> id,
                    value |-> get_integration(integrations, id)]
    /\ UNCHANGED <<integrations, analysis_results>>
    /\ ReadUnchanged

\* lines 159-162
GetByApiKey ==
    /\ CanRead("integrations")
    /\ \E key \in RequestKeys :
        queried' = [op |-> "get_integration_by_api_key", arg |-> key,
                    value |-> get_integration_by_api_key(integrations, key)]
    /\ UNCHANGED <<integrations, analysis_results>>
    /\ ReadUnchanged

\* lines 165-168 and the handler, lines 501-505
List ==
    /\ CanRead("integrations")
    /\ queried' = [op |-> "list_integrations", arg |-> None,
                   value |-> list_integrations(integrations)]
    /\ UNCHANGED <<integrations, analysis_results>>
    /\ ReadUnchanged

\* lines 288-302 and the handler, lines 528-535
QueryResults ==
    /\ CanRead("analysis_results")
    /\ \E id \in RequestIds, limit \in Limits :
        /\ queried' = [op |-> "get_analysis_results", arg |-> <<id, limit>>,
                       value |-> get_analysis_results(analysis_results, id, limit)]
        /\ analysis_results' = get_analysis_results_stored(analysis_results, id, limit)
    /\ UNCHANGED integrations
    /\ ReadUnchanged

NextReads ==
    \/ GetById
    \/ GetByApiKey
    \/ List
    \/ QueryResults
    \/ StatsBegin
    \/ StatsFinish

SpecReads == InitReads /\ [][NextReads]_vars

\* ------------------------------------------------------------ the handlers
\* The handlers of user_handlers.rs and the handler of POST /analyze. The
\* routes of integration_manager.rs share one manager (State<Arc<..>>); each
\* handler of user_handlers.rs builds its own with IntegrationManager::new()
\* and drops it when it returns.

\* lines 118-123: a manager with two empty maps
IntegrationManager_new == [integrations |-> <<>>, analysis_results |-> <<>>]

\* the users the auth middleware may have put into the request extensions
Users == {"u1", "u2"}
\* get_current_user (auth.rs, lines 143-145): None when the middleware set no user
CurrentUsers == {None} \cup {Some(u) : u \in Users}

\* the manager method the create handler calls (line 56): it is not defined
\* in integration_manager.rs; taken as create_integration that also records
\* the owner
create_user_integration(manager, user_id, id, key, webhook_url, configuration) ==
    LET new == [user_id |-> user_id] @@ NewIntegration(id, key, webhook_url, configuration)
    IN [manager |-> [integrations |-> Insert(manager.integrations, id, new),
                     analysis_results |-> Insert(manager.analysis_results, id, <<>>)],
        integration |-> new]

\* the manager method the list handler calls (line 41): it is not defined in
\* integration_manager.rs; taken as the list filtered to the owner
get_user_integrations(manager, user_id) ==
    {i \in Values(manager.integrations) : i.user_id = user_id}

\* lines 47-60: the answer and the manager the handler leaves behind when it
\* returns; `manager` is a local of the handler
create_user_integration_handler(user, id, key, webhook_url, configuration) ==
    IF ~IsSome(user)
    THEN [status |-> "UNAUTHORIZED", body |-> {}]
    ELSE LET manager == IntegrationManager_new
             out == create_user_integration(manager, Unwrap(user), id, key,
                                            webhook_url, configuration)
         IN [status |-> "OK", body |-> {out.integration}]

\* lines 31-44
get_user_integrations_handler(user) ==
    IF ~IsSome(user)
    THEN [status |-> "UNAUTHORIZED", body |-> {}]
    ELSE LET manager == IntegrationManager_new
         IN [status |-> "OK", body |-> get_user_integrations(manager, Unwrap(user))]

\* lines 63-87
delete_user_integration_handler(user, integration_id) ==
    IF ~IsSome(user)
    THEN [status |-> "UNAUTHORIZED", body |-> {}]
    ELSE LET manager == IntegrationManager_new
             found == get_integration(manager.integrations, integration_id)
         IN IF IsSome(found)
            THEN IF Unwrap(found).user_id # Unwrap(user)
                 THEN [status |-> "FORBIDDEN", body |-> {}]
                 ELSE [status |-> delete_handler_status(
                                    delete_integration(manager.integrations,
                                                       manager.analysis_results,
                                                       integration_id).ret),
                       body |-> {}]
            ELSE [status |-> "NOT_FOUND", body |-> {}]

\* lines 90-113; the limit parameter is left out (None)
get_user_integration_results_handler(user, integration_id) ==
    IF ~IsSome(user)
    THEN [status |-> "UNAUTHORIZED", body |-> {}]
    ELSE LET manager == IntegrationManager_new
             found == get_integration(manager.integrations, integration_id)
         IN IF IsSome(found)
            THEN IF Unwrap(found).user_id # Unwrap(user)
                 THEN [status |-> "FORBIDDEN", body |-> {}]
                 ELSE [status |-> "OK",
                       body |-> {get_analysis_results(manager.analysis_results,
                                                      integration_id, None)}]
            ELSE [status |-> "NOT_FOUND", body |-> {}]

\* lines 556-563: the handler of POST /analyze
process_analysis_handler(manager_integrations, manager_results, req) ==
    [status |-> "NOT_IMPLEMENTED", body |-> {}]

Reply(handler, user, id, answer) ==
    [handler |-> handler, user |-> user, id |-> id,
     status |-> answer.status, body |-> answer.body]

\* the ids a user may name: an unknown one, or one a user handler handed out
UserRequestIds == {UnknownId} \cup {x.id : x \in issued}

HandlerUnchanged ==
    /\ UNCHANGED <<integrations, analysis_results, now, response, snapshot, delivery,
                   interpreted, results_guard, received, budget, queried>>
    /\ UNCHANGED adminVars
    /\ UNCHANGED statsVars
    /\ UNCHANGED taskVars

\* POST /user/integrations
UserCreate ==
    /\ OpsStarted < budget
    /\ \E user \in CurrentUsers, webhook_url \in {None, Some("webhook")} :
        LET integration_id == NewUuid("id", uuids)
            api_key == NewApiKey(uuids)
            answer == create_user_integration_handler(user, integration_id, api_key,
                                                      webhook_url, Config(TRUE))
        IN /\ reply' = Reply("create_user_integration", user, integration_id, answer)
           /\ IF answer.status = "OK"
              THEN /\ issued' = issued \cup {[user |-> user, id |-> integration_id]}
                   /\ uuids' = [uuids EXCEPT !["id"] = @ + 1, !["key"] = @ + 1]
              ELSE UNCHANGED <<issued, uuids>>
    /\ HandlerUnchanged

\* GET /user/integrations
UserList ==
    /\ \E user \in CurrentUsers :
        reply' = Reply("get_user_integrations", user, UnknownId,
                       get_user_integrations_handler(user))
    /\ UNCHANGED <<issued, uuids>>
    /\ HandlerUnchanged

\* DELETE /user/integrations/:id
UserDelete ==
    /\ \E user \in CurrentUsers, id \in UserRequestIds :
        LET answer == delete_user_integration_handler(user, id)
        IN /\ reply' = Reply("delete_user_integration", user, id, answer)
           /\ issued' = IF answer.status = "NO_CONTENT"
                        THEN issued \ {[user |-> user, id |-> id]}
                        ELSE issued
    /\ UNCHANGED uuids
    /\ HandlerUnchanged

\* GET /user/integrations/:id/results
UserResults ==
    /\ \E user \in CurrentUsers, id \in UserRequestIds :
        reply' = Reply("get_user_integration_results", user, id,
                       get_user_integration_results_handler(user, id))
    /\ UNCHANGED <<issued, uuids>>
    /\ HandlerUnchanged

\* POST /analyze, on the manager shared by the routes of lines 478-488
ProcessAnalysis ==
    /\ \E key \in RequestKeys :
        LET req == [api_key |-> key, callback_url |-> None, data |-> Scalar]
        IN reply' = Reply("process_analysis", None, key,
                          process_analysis_handler(integrations, analysis_results, req))
    /\ UNCHANGED <<issued, uuids>>
    /\ HandlerUnchanged

NextHandlers ==
    \/ CreateInsert
    \/ CreateFinish
    \/ UserCreate
    \/ UserList
    \/ UserDelete
    \/ UserResults
    \/ ProcessAnalysis

SpecHandlers == Init /\ [][NextHandlers]_vars

\* ================================================================= claims
Terminal(status) == status \in {"Completed", "Failed"}
Returned(t) == pc[t] = "done"
\* the call passed validation and built its result record
Accepted(t) == IsSome(analysis_result[t])
ResultOf(t) == Unwrap(analysis_result[t])
AcceptedOn(i) == {t \in Tasks : Accepted(t) /\ ResultOf(t).integration_id = i}
Query(i) == get_analysis_results(analysis_results, i, None)
\* the status process_analysis_request reported to its caller
Reported(t) == IF ret[t].kind = "Ok" THEN "Completed" ELSE "Failed"
KeyIsStored(key) == \E i \in DOMAIN integrations : integrations[i].api_key = key
\* task t takes its validation step
Validates(t) == pc[t] = "idle" /\ pc'[t] # "idle"

\* C1: when exactly two accepted Submit calls against one integration have
\* both returned and the integration still exists, Query shows exactly two
\* records, with the two distinct result ids, each Completed or Failed.
C1_TwoSubmitsTwoRecords ==
    \A t1, t2 \in Tasks :
        \A i \in DOMAIN integrations :
            (t1 # t2 /\ AcceptedOn(i) = {t1, t2} /\ Returned(t1) /\ Returned(t2))
            => LET q == Query(i)
               IN /\ Len(q) = 2
                  /\ ResultOf(t1).id # ResultOf(t2).id
                  /\ {q[k].id : k \in 1..Len(q)} = {ResultOf(t1).id, ResultOf(t2).id}
                  /\ \A k \in 1..Len(q) : Terminal(q[k].status)

\* C2: whenever the finalize step of a Submit call overwrites a record, the
\* record overwritten carries the result id of that same call.
C2_FinalizeOwnRecord ==
    [][\A t \in Tasks :
         (pc[t] = "infer" /\ pc'[t] # "infer")
         => LET i == ResultOf(t).integration_id
            IN (i \in DOMAIN analysis_results /\ Len(analysis_results[i]) > 0)
               => /\ analysis_results[i][Len(analysis_results[i])].id = ResultOf(t).id
                  /\ analysis_results'[i][Len(analysis_results[i])].id = ResultOf(t).id]_vars

\* C3: a stored record that is Completed or Failed is the same record, at the
\* same place, after every step that keeps its integration.
C3_Terminality ==
    [][\A i \in DOMAIN analysis_results :
         i \in DOMAIN analysis_results'
         => \A k \in 1..Len(analysis_results[i]) :
              Terminal(analysis_results[i][k].status)
              => /\ k <= Len(analysis_results'[i])
                 /\ analysis_results'[i][k] = analysis_results[i][k]]_vars

\* C4: after an accepted Submit has returned, as long as its integration
\* exists, Query holds a record with the call's result id and the terminal
\* status the call reported.
C4_ReturnedIsQueryable ==
    \A t \in Tasks :
        (Returned(t) /\ Accepted(t) /\ ResultOf(t).integration_id \in DOMAIN integrations)
        => \E k \in 1..Len(Query(ResultOf(t).integration_id)) :
              /\ Query(ResultOf(t).integration_id)[k].id = ResultOf(t).id
              /\ Query(ResultOf(t).integration_id)[k].status = Reported(t)

\* C5: a Submit whose api key belongs to no stored integration returns
\* "Invalid API key" in its first step and changes neither map, appends
\* nothing, invokes no inference and sends no notification, then or later.
C5_UnknownKeyStep ==
    \A t \in Tasks :
        (Validates(t) /\ ~KeyIsStored(request'[t].api_key))
        => /\ pc'[t] = "done"
           /\ ret'[t] = Err(InvalidApiKey)
           /\ analysis_result'[t] = None
           /\ UNCHANGED <<integrations, analysis_results, inferCalls, sent>>

C5_Rejected(t) == Returned(t) /\ ret[t] = Err(InvalidApiKey)

C5_UnknownKeyRejected ==
    /\ [][C5_UnknownKeyStep]_vars
    /\ [](\A t \in Tasks : C5_Rejected(t) => (inferCalls[t] = 0 /\ sent[t] = <<>>))

\* C5 witness: a call was rejected for its key while an integration is stored
C5_Witness ==
    \E t \in Tasks : C5_Rejected(t) /\ DOMAIN integrations # {} /\ writer.op = "none"

C7_DeleteReportsPresence ==
    response.status # "none"
    => /\ response.ret = response.existed
       /\ (response.status = "NOT_FOUND") = ~response.existed

\* C8: once delete_integration(id) has completed, the id is in neither map,
\* its query is empty and no stored record names it, whatever the Submit calls
\* that looked the integration up before the deletion do afterwards.
C8_DeletionCascade ==
    \A id \in deleted :
        /\ get_integration(integrations, id) = None
        /\ get_analysis_results(analysis_results, id, None) = <<>>
        /\ id \notin DOMAIN analysis_results
        /\ \A i \in DOMAIN analysis_results :
              \A k \in 1..Len(analysis_results[i]) :
                  analysis_results[i][k].integration_id # id

\* C8 witness: a call whose integration was deleted before its append has run
\* its append and its finalize step
C8_Witness ==
    \E t \in Tasks :
        /\ pc[t] = "notify"
        /\ dropped[t]
        /\ ResultOf(t).integration_id \in deleted

\* C9: the api key of a deleted integration is found by no later lookup, and
\* a Submit that presents it is rejected with "Invalid API key".
C9_DeletedKeyRejected ==
    /\ [](\A key \in deletedKeys : get_integration_by_api_key(integrations, key) = None)
    /\ [][\A t \in Tasks :
            (Validates(t) /\ request'[t].api_key \in deletedKeys)
            => (pc'[t] = "done" /\ ret'[t] = Err(InvalidApiKey))]_vars

\* C9 witness: a call presenting a deleted integration's key has been rejected
C9_Witness ==
    \E t \in Tasks :
        /\ request[t].api_key \in deletedKeys
        /\ Returned(t)
        /\ ret[t] = Err(InvalidApiKey)

\* C10: the stored integrations are keyed by their own ids and have pairwise
\* distinct api keys; the lookup by key returns the one integration with
\* that key, or None; create_integration adds one id and changes no stored
\* integration.
C10_UniqueState ==
    /\ \A i \in DOMAIN integrations : integrations[i].id = i
    /\ \A i, j \in DOMAIN integrations :
          i # j => integrations[i].api_key # integrations[j].api_key
    /\ \A key \in RequestKeys :
          LET matches == {i \in DOMAIN integrations : integrations[i].api_key = key}
          IN /\ Cardinality(matches) <= 1
             /\ matches = {} => get_integration_by_api_key(integrations, key) = None
             /\ \A i \in matches :
                    get_integration_by_api_key(integrations, key) = Some(integrations[i])

C10_CreateStep ==
    uuids'["id"] # uuids["id"]
    => /\ Cardinality(DOMAIN integrations') = Cardinality(DOMAIN integrations) + 1
       /\ \A i \in DOMAIN integrations :
             i \in DOMAIN integrations' /\ integrations'[i] = integrations[i]

C10_Uniqueness == []C10_UniqueState /\ [][C10_CreateStep]_vars

\* C10 witness: two integrations are stored at once
C10_Witness ==
    /\ Cardinality(DOMAIN integrations) = 2
    /\ writer.op = "none"

\* the stored records, as (integration id, position) pairs
StoredRecords ==
    UNION {{<<i, k>> : k \in 1..Len(analysis_results[i])} : i \in DOMAIN analysis_results}
InFlight(t) == pc[t] \in {"append", "infer", "notify"}

\* C11: a value returned by get_dashboard_stats is computed from the two maps
\* as they stand together at the moment it returns, with no create half done:
\* total_analyses is the number of stored records, successful_analyses the
\* number of Completed ones, the integration counts are those of the
\* integrations map; successful <= total, active <= total, and the rate is
\* 0 when total_analyses is 0 and successful/total otherwise.
C11_SnapshotConsistent ==
    snapshot.kind = "stats"
    => /\ writer.op = "none"
       /\ snapshot.total_integrations = Cardinality(DOMAIN integrations)
       /\ snapshot.active_integrations =
             Cardinality({i \in DOMAIN integrations : integrations[i].status = "Active"})
       /\ snapshot.total_analyses = Cardinality(StoredRecords)
       /\ snapshot.successful_analyses =
             Cardinality({p \in StoredRecords :
                            analysis_results[p[1]][p[2]].status = "Completed"})
       /\ snapshot.successful_analyses <= snapshot.total_analyses
       /\ snapshot.active_integrations <= snapshot.total_integrations
       /\ snapshot.total_analyses = 0 => snapshot.success_rate = <<0, 1>>
       /\ snapshot.total_analyses > 0
            => snapshot.success_rate = <<snapshot.successful_analyses, snapshot.total_analyses>>
       /\ snapshot.success_rate[2] > 0
       /\ 0 <= snapshot.success_rate[1]
       /\ snapshot.success_rate[1] <= snapshot.success_rate[2]

\* C11 witness: a snapshot returned while a process_analysis_request call is
\* between its steps, counting that call's record, which is not Completed
C11_Witness ==
    /\ snapshot.kind = "stats"
    /\ snapshot.total_analyses = 1
    /\ snapshot.successful_analyses = 0
    /\ \E t \in Tasks : pc[t] = "infer"

\* the number of positions of s that hold x
Occurrences(s, x) == Cardinality({k \in 1..Len(s) : s[k] = x})
Min(a, b) == IF a <= b THEN a ELSE b

\* C12: for every stored sequence, get_analysis_results without a limit
\* returns all its records, each as often as it is stored, ordered by
\* non-increasing created_at; with limit n it returns exactly the first
\* min(n, length) records of that ordering.
C12_QueryOrdered ==
    \A i \in DOMAIN analysis_results :
        LET stored == analysis_results[i]
            all == get_analysis_results(analysis_results, i, None)
        IN /\ Len(all) = Len(stored)
           /\ \A k \in 1..Len(stored) :
                 Occurrences(all, stored[k]) = Occurrences(stored, stored[k])
           /\ \A k \in 1..(Len(all) - 1) : all[k].created_at >= all[k + 1].created_at
           /\ \A n \in 0..(Len(stored) + 1) :
                 LET some == get_analysis_results(analysis_results, i, Some(n))
                 IN /\ Len(some) = Min(n, Len(stored))
                    /\ \A k \in 1..Len(some) : some[k] = all[k]

\* C12 witness: a sequence stored oldest first, which the query has to
\* reorder and a limit of 1 has to cut
C12_Witness ==
    \E i \in DOMAIN analysis_results :
        /\ Len(analysis_results[i]) = 2
        /\ analysis_results[i][1].created_at < analysis_results[i][2].created_at
        /\ get_analysis_results(analysis_results, i, Some(1)) = <<analysis_results[i][2]>>

\* the inference call of task t has answered with an error
InferenceFailed(t) == IsSome(ai[t]) /\ ~Unwrap(ai[t]).ok

\* C13: a process_analysis_request call whose inference call failed returns
\* an error in the step that receives the answer, without sending anything:
\* it never reaches the sends, and a call that returned an error has sent
\* neither a webhook nor a callback notification.
C13_NoSendOnFailure ==
    /\ [][\A t \in Tasks :
            (pc[t] = "infer" /\ InferenceFailed(t)')
            => (pc'[t] = "done" /\ ret'[t].kind = "Err" /\ sent'[t] = <<>>)]_vars
    /\ [](\A t \in Tasks : InferenceFailed(t) => (Returned(t) /\ sent[t] = <<>>))
    /\ [](\A t \in Tasks : (Returned(t) /\ ret[t].kind = "Err") => sent[t] = <<>>)

\* C13 witness: a call that supplied a callback url, against a stored
\* integration that has a webhook url, has returned the inference error
C13_Witness ==
    \E t \in Tasks :
        /\ Returned(t)
        /\ Accepted(t)
        /\ ResultOf(t).status = "Failed"
        /\ ret[t].kind = "Err"
        /\ IsSome(request[t].callback_url)
        /\ ResultOf(t).integration_id \in DOMAIN integrations
        /\ IsSome(integrations[ResultOf(t).integration_id].webhook_url)

\* the notifications of kind `to` among those in s
SentTo(s, to) == {k \in 1..Len(s) : s[k].to = to}

\* C14: when a successful process_analysis_request call returns, it has sent
\* the webhook notification exactly when its integration has a webhook_url
\* and notification_settings.webhook_notifications is true, and the callback
\* notification exactly when the request carried a callback_url.
C14_WebhookIffEnabled ==
    [][\A t \in Tasks :
         (pc[t] = "notify" /\ pc'[t] = "done")
         => LET integ == Unwrap(integration[t])
            IN /\ (SentTo(sent'[t], "webhook") # {})
                    <=> (/\ IsSome(integ.webhook_url)
                         /\ integ.configuration.notification_settings.webhook_notifications)
               /\ (SentTo(sent'[t], "callback") # {})
                    <=> IsSome(request[t].callback_url)]_vars

\* C15: a process_analysis_request call invokes the inference at most once,
\* and never again once it has made the call; a call that has returned invoked
\* it once if it was accepted and not at all if it was rejected; when the
\* answer is an error the call's next step writes its record with status
\* Failed over the last stored element and returns an error.
C15_FailureStep ==
    \A t \in Tasks :
        (pc[t] = "infer" /\ InferenceFailed(t)')
        => /\ pc'[t] = "done"
           /\ ret'[t].kind = "Err"
           /\ ResultOf(t)'.status = "Failed"
           /\ LET i == ResultOf(t).integration_id
              IN (i \in DOMAIN analysis_results /\ Len(analysis_results[i]) > 0)
                 => analysis_results'[i][Len(analysis_results[i])] = ResultOf(t)'

C15_NoLaterCall ==
    \A t \in Tasks :
        pc[t] \in {"infer", "notify", "done"} => inferCalls'[t] = inferCalls[t]

C15_OneInference ==
    /\ [](\A t \in Tasks : inferCalls[t] <= 1)
    /\ [](\A t \in Tasks :
            Returned(t) => inferCalls[t] = (IF Accepted(t) THEN 1 ELSE 0))
    /\ [][C15_NoLaterCall]_vars
    /\ [][C15_FailureStep]_vars

\* C15 witness: one call has returned the error of its single failed
\* inference call, another was rejected without any
C15_Witness ==
    \E t, u \in Tasks :
        /\ Returned(t) /\ Accepted(t) /\ ret[t].kind = "Err" /\ inferCalls[t] = 1
        /\ Returned(u) /\ ~Accepted(u) /\ inferCalls[u] = 0

\* C16: the step in which a successful process_analysis_request call sends
\* and returns gives back Ok with the call's Completed record, changes
\* neither map nor the record, and issues the webhook send when the
\* integration has a webhook url and the callback send when the request has
\* a callback url, whichever deliveries fail.
C16_SendOutcomeIgnored ==
    [][\A t \in Tasks :
         (pc[t] = "notify" /\ pc'[t] # "notify")
         => /\ pc'[t] = "done"
            /\ ret'[t] = Ok(ResultOf(t))
            /\ ResultOf(t)' = ResultOf(t)
            /\ ResultOf(t).status = "Completed"
            /\ UNCHANGED <<integrations, analysis_results>>
            /\ (SentTo(sent'[t], "webhook") # {})
                 <=> IsSome(Unwrap(integration[t]).webhook_url)
            /\ (SentTo(sent'[t], "callback") # {})
                 <=> IsSome(request[t].callback_url)]_vars

\* C16 witness: a call has just returned Ok after a webhook send whose
\* delivery failed and a callback send issued after it
C16_Witness ==
    \E t \in Tasks :
        /\ Returned(t)
        /\ ret[t].kind = "Ok"
        /\ Len(sent[t]) = 2
        /\ sent[t][1].to = "webhook"
        /\ sent[t][2].to = "callback"
        /\ delivery.kind = "sent"
        /\ delivery.webhook_failed

\* C17: once an accepted process_analysis_request call has returned, its
\* integration, while stored, has a last_activity.
C17_LastActivitySet ==
    \A t \in Tasks :
        (Returned(t) /\ Accepted(t) /\ ResultOf(t).integration_id \in DOMAIN integrations)
        => IsSome(integrations[ResultOf(t).integration_id].last_activity)

\* a create_integration call takes its first step in this step
CreateStarts == writer.op = "none" /\ writer'.op = "create"
\* a create_integration call returns in this step
CreateReturns == writer.op = "create" /\ writer'.op = "none"

\* C18: the integration create_integration returns is Active and has no
\* last_activity; in the state it returns to, the lookups by its id and by
\* its api key both give that integration and its sequence exists and is
\* empty; neither step of the call changes a stored integration or sequence
\* of another id.
C18_CreateStep ==
    /\ CreateReturns
       => LET new == Unwrap(writer.integration)
          IN /\ new.status = "Active"
             /\ new.last_activity = None
             /\ get_integration(integrations', new.id) = Some(new)
             /\ get_integration_by_api_key(integrations', new.api_key) = Some(new)
             /\ new.id \in DOMAIN analysis_results'
             /\ get_analysis_results(analysis_results', new.id, None) = <<>>
             /\ \A k \in RequestKeys \ {new.api_key} :
                    get_integration_by_api_key(integrations', k)
                        = get_integration_by_api_key(integrations, k)
    /\ (CreateStarts \/ CreateReturns)
       => LET id == IF CreateReturns THEN writer.id ELSE writer'.id
          IN /\ DOMAIN integrations' = DOMAIN integrations \cup {id}
             /\ DOMAIN analysis_results' \ {id} = DOMAIN analysis_results \ {id}
             /\ \A j \in DOMAIN integrations \ {id} : integrations'[j] = integrations[j]
             /\ \A j \in DOMAIN analysis_results \ {id} :
                    analysis_results'[j] = analysis_results[j]

C18_CreateEstablishes == [][C18_CreateStep]_vars

\* C18 witness: the integration created last has an empty sequence while
\* another integration holds a record and no call has returned since
C18_Witness ==
    /\ writer.op = "none"
    /\ response = NoResponse
    /\ \E i, j \in DOMAIN integrations :
          /\ i # j
          /\ i = <<"id", uuids["id"]>>
          /\ analysis_results[i] = <<>>
          /\ Len(analysis_results[j]) > 0
          /\ \A t \in Tasks : pc[t] \in {"idle", "infer"}

\* the answer has been interpreted and was not well-formed JSON
Synthesized == interpreted.stage = "output" /\ from_str(interpreted.ai_response) = None
\* the answer holds the keyword
Has(word) == word \in {interpreted.ai_response.fragments[k] :
                            k \in 1..Len(interpreted.ai_response.fragments)}
Bit(b) == IF b THEN 1 ELSE 0

\* C19: for an answer that is not well-formed JSON, the insights of the payload
\* are one "pattern" entry iff the answer contains "pattern" or "trend" and
\* one "anomaly" entry iff it contains "anomaly" or "outlier", pattern first,
\* and nothing else; the recommendations are the optimizing text iff it
\* contains "optimize", the monitoring text iff it contains "monitor", the
\* fallback text iff it is empty, and nothing else; the two counts are the
\* lengths of the two lists.
C19_KeywordExtraction ==
    Synthesized
    => LET ins == Unwrap(interpreted.structured_result.insights).items
           rec == Unwrap(interpreted.structured_result.recommendations).items
       IN /\ Occurrences(ins, "pattern") = Bit(Has("pattern") \/ Has("trend"))
          /\ Occurrences(ins, "anomaly") = Bit(Has("anomaly") \/ Has("outlier"))
          /\ Len(ins) = Occurrences(ins, "pattern") + Occurrences(ins, "anomaly")
          /\ Len(ins) = 2 => ins = <<"pattern", "anomaly">>
          /\ Occurrences(rec, "Consider optimizing data processing") = Bit(Has("optimize"))
          /\ Occurrences(rec, "Implement continuous monitoring") = Bit(Has("monitor"))
          /\ Occurrences(rec, "Review analysis results for actionable insights")
                = Bit(interpreted.ai_response.fragments = <<>>)
          /\ Len(rec) = Bit(Has("optimize")) + Bit(Has("monitor"))
                          + Bit(interpreted.ai_response.fragments = <<>>)
          /\ interpreted.insights_count = Len(ins)
          /\ interpreted.recommendations_count = Len(rec)

\* C19 witness: an answer with "pattern" and "optimize" has been interpreted
\* and counts one insight and one recommendation
C19_Witness ==
    /\ Synthesized
    /\ Has("pattern") /\ Has("optimize")
    /\ interpreted.insights_count = 1
    /\ interpreted.recommendations_count = 1

\* C20: the sample attached to a synthesized payload is, for an array of more
\* than 3 items, an object holding exactly the first 3 items and the array's
\* length; for an object of more than 5 keys, an object holding exactly 5 of
\* its entries, the first 5, and the number of its keys; for any other data
\* the data itself.
C20_SampleBounded ==
    Synthesized
    => LET data == interpreted.original_data
           sample == Unwrap(interpreted.structured_result.original_data_sample)
       IN /\ (data.kind = "array" /\ Len(data.items) > 3)
               => /\ sample.type = "array"
                  /\ sample.length = Len(data.items)
                  /\ Len(sample.sample.items) = 3
                  /\ \A k \in 1..3 : sample.sample.items[k] = data.items[k]
          /\ (data.kind = "object" /\ Len(data.entries) > 5)
               => /\ sample.type = "object"
                  /\ sample.total_keys = Len(data.entries)
                  /\ Len(sample.sample.entries) = 5
                  /\ \A k \in 1..5 : sample.sample.entries[k] = data.entries[k]
          /\ (data.kind = "array" /\ Len(data.items) <= 3) => sample = data
          /\ (data.kind = "object" /\ Len(data.entries) <= 5) => sample = data
          /\ data.kind = "scalar" => sample = data

\* C20 witness: an array of 4 different items has been sampled
C20_Witness ==
    /\ Synthesized
    /\ interpreted.original_data.kind = "array"
    /\ Len(interpreted.original_data.items) = 4
    /\ interpreted.original_data.items[1] # interpreted.original_data.items[4]
    /\ Len(Unwrap(interpreted.structured_result.original_data_sample).sample.items) = 3


\* ------------------------------------------------------------------- C21
\* the user named by the last answer of a user handler still owns the id
Owns(user, id) == [user |-> user, id |-> id] \in issued

\* C21: an integration created through the per-user create operation is
\* visible to the later per-user operations of the same user: the user's
\* list holds it, and the user's delete and results operations on it do not
\* answer NOT_FOUND.
C21_UserIntegrationVisible ==
    /\ (reply.handler \in {"delete_user_integration", "get_user_integration_results"}
        /\ Owns(reply.user, reply.id))
       => reply.status # "NOT_FOUND"
    /\ (reply.handler = "get_user_integrations" /\ reply.status = "OK")
       => \A x \in issued :
            x.user = reply.user => x.id \in {i.id : i \in reply.body}

\* ------------------------------------------------------------------- C22
\* the key is the api key of an Active integration of the shared manager
KeyIsActive(key) ==
    \E i \in DOMAIN integrations :
        integrations[i].api_key = key /\ integrations[i].status = "Active"

\* C22: POST /analyze with the api key of an Active integration appends
\* exactly one result record for that integration and answers with a
\* terminal result or an inference error, never with a fixed rejection.
C22_AnalyzeMapsToSubmit ==
    [][(reply' # reply /\ reply'.handler = "process_analysis"
        /\ writer.op = "none" /\ KeyIsActive(reply'.id))
       => /\ reply'.status \in {"OK", "INTERNAL_SERVER_ERROR"}
          /\ \E i \in DOMAIN integrations :
               /\ integrations[i].api_key = reply'.id
               /\ Len(analysis_results'[i]) = Len(analysis_results[i]) + 1]_vars

\* ------------------------------------------------------------------- C23
\* the call has pushed its record and has not yet written its final one
BetweenAppendAndFinalize(t) == pc[t] = "infer"

\* C23: in every state between the append step and the finalize step of a
\* call whose integration still exists, the integration's sequence holds a
\* record with the call's result id in a non-terminal status, whatever other
\* calls against the same integration do in between.
C23_InFlightVisible ==
    \A t \in Tasks :
        LET i == ResultOf(t).integration_id
        IN (BetweenAppendAndFinalize(t) /\ i \in DOMAIN integrations
                                     /\ i \in DOMAIN analysis_results)
           => \E k \in 1..Len(analysis_results[i]) :
                /\ analysis_results[i][k].id = ResultOf(t).id
                /\ analysis_results[i][k].status \in {"Pending", "Processing"}

\* ------------------------------------------------------------------- C24
\* C24: the result ids within one integration's sequence are pairwise
\* distinct, under any interleaving of calls against that integration.
C24_ResultIdsDistinct ==
    \A i \in DOMAIN analysis_results :
        \A j, k \in 1..Len(analysis_results[i]) :
            analysis_results[i][j].id = analysis_results[i][k].id => j = k

\* ------------------------------------------------------------------- C25
\* C25: no call invokes the inference capability, or goes on to return
\* Completed, without having added its record to the integration's
\* sequence, also when the integration is deleted between the key lookup
\* and the append.
C25_AppendNeverDropped ==
    \A t \in Tasks :
        (pc[t] \in {"infer", "notify"} \/ inferCalls[t] > 0) => ~dropped[t]

\* ------------------------------------------------------------------- C26
\* the call is suspended in the inference call or in a notification send
Suspended(t) == pc[t] \in {"infer", "notify"}

\* no create_integration or get_dashboard_stats call is between its steps
NoGuardedCall == writer.op = "none" /\ readers = 0

\* C26: no store lock is held by a call suspended in the inference call or
\* in a notification send: while one call is suspended, no task holds the
\* results guard, and every other operation that is not kept out by a
\* create or stats call in progress can take its step (create, delete,
\* stats and the key lookup of another call start, a create or stats call
\* in progress finishes, another call appends or finalizes).
C26_NoLockWhileSuspended ==
    \A t \in Tasks :
        Suspended(t)
        => /\ results_guard = 0
           /\ (NoGuardedCall /\ OpsStarted < budget)
              => /\ ENABLED CreateInsert
                 /\ ENABLED Delete
                 /\ ENABLED StatsBegin
                 /\ \A u \in Tasks : (pc[u] = "idle" /\ Started(u))
                                     => ENABLED SubmitValidate(u)
           /\ writer.op = "create" => ENABLED CreateFinish
           /\ readers > 0 => ENABLED StatsFinish
           /\ \A u \in Tasks \ {t} :
                /\ pc[u] = "append" => ENABLED SubmitAppend(u)
                /\ pc[u] = "infer" => ENABLED SubmitFinalize(u)

\* one call waits for its answer while another is at its append
C26_Witness ==
    \E t, u \in Tasks : pc[t] = "infer" /\ pc[u] = "append" /\ ENABLED SubmitAppend(u)

\* ------------------------------------------------------------------- C27
\* an operation that has started and not returned
CreateRunning == writer.op = "create"
StatsRunning == readers > 0

\* no operation holds a guard on analysis_results while it waits for a
\* guard on integrations
ResultsNeverHeldFirst ==
    results_guard = 0 /\ ReadHeld("analysis_results") = 0

\* some step of a started operation can be taken
NoDeadlock ==
    (CreateRunning \/ StatsRunning \/ \E t \in Tasks : InFlight(t))
    => \/ ENABLED CreateFinish
       \/ ENABLED StatsFinish
       \/ \E t \in Tasks : \/ ENABLED SubmitAppend(t)
                           \/ ENABLED SubmitFinalize(t)
                           \/ ENABLED SubmitNotify(t)

\* C27: the two locks are taken in the order integrations, then
\* analysis_results, and no operation asks for integrations while it holds
\* analysis_results; no interleaving deadlocks, and under fair scheduling
\* every started operation whose inference call returns completes (the
\* callers start finitely many calls, so from some point on none is running).
C27_LockOrderNoDeadlock ==
    /\ [](ResultsNeverHeldFirst /\ NoDeadlock)
    /\ <>[](~CreateRunning /\ ~StatsRunning /\ \A t \in Tasks : ~InFlight(t))

\* a create_integration call holds integrations.write() and asks for the
\* results guard while a call is between its append and its finalize
C27_Witness ==
    /\ CreateRunning
    /\ \E t \in Tasks : pc[t] = "infer"

\* ------------------------------------------------------------------- C28
\* C28: in every state in which integrations is not write-held, the ids of
\* integrations are the ids that have a sequence in analysis_results:
\* create and delete change both maps in one step as far as any reader sees.
C28_MapsAgree ==
    ~WriteHeld("integrations") => DOMAIN integrations = DOMAIN analysis_results

\* an integration is stored after another one was created and deleted
C28_Witness ==
    /\ ~WriteHeld("integrations")
    /\ DOMAIN integrations # {}
    /\ deleted \ {UnknownId} # {}

\* ------------------------------------------------------------------- C29
\* every stored record lies in the sequence of the integration it names
C29_Stored ==
    \A i \in DOMAIN analysis_results :
        \A k \in 1..Len(analysis_results[i]) :
            analysis_results[i][k].integration_id = i

\* the record a call builds names the integration that owns the request's
\* api key, whatever the request's integration_id field holds
C29_ValidateStep ==
    \A t \in Tasks :
        (Validates(t) /\ IsSome(analysis_result'[t]))
        => LET owner == CHOOSE i \in DOMAIN integrations :
                            integrations[i].api_key = request'[t].api_key
           IN /\ Unwrap(analysis_result'[t]).integration_id = owner
              /\ Unwrap(integration'[t]).id = owner

\* C29: every record stored in the sequence of integration i has
\* integration_id = i, and i is the integration owning the api key of the
\* call that produced the record; the integration_id field of the request
\* has no influence on where the record is stored.
C29_RecordsOwned == []C29_Stored /\ [][C29_ValidateStep]_vars

\* a request accepted with the api key of one integration names another
\* stored integration in its integration_id field
C29_Witness ==
    /\ received.kind = "request"
    /\ received.integration_id \in DOMAIN integrations
    /\ \E t \in Tasks :
        /\ pc[t] = "append"
        /\ \A u \in Tasks : Accepted(u) => u <= t
        /\ ResultOf(t).integration_id # received.integration_id

\* ------------------------------------------------------------------- C30
\* the calls that have executed their append step for integration i
Appended(i) ==
    {t \in Tasks : /\ Accepted(t)
                   /\ ResultOf(t).integration_id = i
                   /\ pc[t] \in {"infer", "notify", "done"}}

\* C30: the length of an existing integration's sequence is the number of
\* calls that have executed their append step for it: the append adds one
\* record and the finalize step changes no length, under any interleaving.
C30_LengthCountsAppends ==
    \A i \in DOMAIN analysis_results :
        Len(analysis_results[i]) = Cardinality(Appended(i))

\* two calls have appended to one integration and one of them has finalized
C30_Witness ==
    \E i \in DOMAIN analysis_results :
        /\ Len(analysis_results[i]) = 2
        /\ \E t \in Appended(i) : Returned(t)

\* ------------------------------------------------------------------- C31
\* task t takes its append or its finalize step
Writes(t) == pc[t] \in {"append", "infer"} /\ pc'[t] # pc[t]

\* C31: a call against integration A never modifies the sequence of another
\* integration and never modifies an Integration record: its append and
\* finalize steps leave every other sequence and the whole of integrations
\* as they are, and its other steps leave both maps as they are, under any
\* interleaving with calls against another integration.
C31_SubmitFrame ==
    [][\A t \in Tasks :
        /\ Writes(t)
           => /\ integrations' = integrations
              /\ DOMAIN analysis_results' = DOMAIN analysis_results
              /\ \A i \in DOMAIN analysis_results \ {Unwrap(integration[t]).id} :
                    analysis_results'[i] = analysis_results[i]
        /\ (pc'[t] # pc[t] /\ ~Writes(t))
           => /\ integrations' = integrations
              /\ analysis_results' = analysis_results]_vars

\* calls against two integrations have both appended and one has finalized
C31_Witness ==
    \E i, j \in DOMAIN analysis_results :
        /\ i # j
        /\ Len(analysis_results[i]) > 0
        /\ Len(analysis_results[j]) > 0
        /\ \E t \in Appended(i) : Returned(t)
        /\ \E u \in Appended(j) : pc[u] = "infer"

\* ------------------------------------------------------------------- C32
\* the answer of a query is the stored sequence sorted newest first and cut
\* to the limit
C32_QueryAnswer ==
    queried.op = "get_analysis_results"
    => LET id == queried.arg[1]
           limit == queried.arg[2]
       IN IF id \in DOMAIN analysis_results
          THEN /\ \A k \in 1..(Len(queried.value) - 1) :
                     queried.value[k].created_at >= queried.value[k + 1].created_at
               /\ Len(queried.value) =
                     IF IsSome(limit) THEN Min(Unwrap(limit), Len(analysis_results[id]))
                     ELSE Len(analysis_results[id])
          ELSE queried.value = <<>>

\* C32: the read operations get_integration, get_integration_by_api_key,
\* list_integrations, get_analysis_results (with or without limit) and
\* get_dashboard_stats leave integrations and analysis_results unchanged;
\* the sort and the truncation of a query act on a copy and neither reorder
\* nor shorten the stored sequence.
C32_ReadsFrame ==
    /\ []C32_QueryAnswer
    /\ [][integrations' = integrations /\ analysis_results' = analysis_results]_vars

\* a limited query has answered with fewer records, in another order, than
\* the sequence it was made on, which is stored as before
C32_Witness ==
    /\ queried.op = "get_analysis_results"
    /\ queried.arg[1] \in DOMAIN analysis_results
    /\ LET stored == analysis_results[queried.arg[1]]
       IN /\ Len(stored) = 2
          /\ stored[1].created_at < stored[2].created_at
          /\ queried.value = <<stored[2]>>

\* ------------------------------------------------------------------- C33
\* the fields of an Integration the model keeps, besides last_activity; the
\* name, which the model leaves out, is written at line 132 only
C33_Fields == {"id", "api_key", "status", "webhook_url", "configuration"}

\* C33: a stored Integration record is never modified between its creation
\* and its deletion: its id, api_key, status, webhook_url and configuration
\* are the same in every state in which it exists, and so every stored
\* integration has status Active in every reachable state.
C33_IntegrationImmutable ==
    /\ [](\A i \in DOMAIN integrations :
            /\ integrations[i].status = "Active"
            /\ integrations[i].id = i)
    /\ [][\A i \in DOMAIN integrations \cap DOMAIN integrations' :
            \A f \in C33_Fields : integrations'[i][f] = integrations[i][f]]_vars

\* an integration is stored as it was created after a call on it was
\* finalized and another integration was deleted
C33_Witness ==
    \E i \in DOMAIN integrations :
        /\ \E t \in Appended(i) : Returned(t)
        /\ \E j \in deleted : j # i /\ j \notin DOMAIN integrations

\* ------------------------------------------------------------------- C34
\* the URLs the sends of call t went to
C34_Urls(t) == {sent[t][k].url : k \in 1..Len(sent[t])}

\* C34 (amended): for every successful process_analysis_request call, the
\* webhook and callback sends are issued only after the call's update of
\* its record in analysis_results (lines 245-252) has been executed, there
\* is at most one webhook send and at most one callback send per call, and
\* the result passed to a send is the updated record, in status Completed.
C34_SendsFollowFinalize ==
    \A t \in Tasks :
        /\ sent[t] # <<>> => pc[t] = "done" /\ ret[t].kind = "Ok" /\ IsSome(ai[t])
        /\ \A k \in 1..Len(sent[t]) :
              /\ sent[t][k].result.status = "Completed"
              /\ sent[t][k].result = Unwrap(analysis_result[t])
        /\ \A to \in {"webhook", "callback"} : Cardinality(SentTo(sent[t], to)) <= 1

\* C34 as stated: as above, with at most one send per URL and call; a
\* request whose callback_url is its integration's webhook_url has two.
C34_NotifyAfterFinalize ==
    /\ C34_SendsFollowFinalize
    /\ \A t \in Tasks : Cardinality(C34_Urls(t)) = Len(sent[t])

\* a call has returned after its webhook send and its callback send, which
\* went to one URL
C34_Witness ==
    \E t \in Tasks :
        /\ Returned(t)
        /\ Len(sent[t]) = 2
        /\ Cardinality(C34_Urls(t)) = 1

\* ------------------------------------------------------------------- C35
\* the payload is an object whose only member is "error"
C35_ErrorOnly(payload) ==
    /\ payload.kind = "object"
    /\ IsSome(payload.error)
    /\ \A member \in DOMAIN payload \ {"kind", "error"} : payload[member] = None

\* C35: when the inference call fails with message m, the record written
\* by the step that receives the answer (lines 268-280) has status Failed,
\* a payload of the form {error: d} and insights_count =
\* recommendations_count = 0, and the error returned to the caller of
\* process_analysis_request carries the same detail d as the stored
\* payload.
C35_FailureRecorded ==
    [][\A t \in Tasks :
         (pc[t] = "infer" /\ InferenceFailed(t)')
         => LET r == ResultOf(t)'
                i == r.integration_id
            IN /\ r.status = "Failed"
               /\ C35_ErrorOnly(r.analysis_result)
               /\ r.insights_count = 0
               /\ r.recommendations_count = 0
               /\ ret'[t].kind = "Err"
               /\ ret'[t].error = Unwrap(r.analysis_result.error)
               /\ ret'[t].error = AnalysisFailed(Unwrap(ai'[t]).error)
               /\ (i \in DOMAIN analysis_results /\ Len(analysis_results[i]) > 0)
                  => /\ Len(analysis_results'[i]) = Len(analysis_results[i])
                     /\ analysis_results'[i][Len(analysis_results[i])] = r]_vars

\* a call whose inference call failed has returned, and its record is stored
C35_Witness ==
    \E t \in Tasks :
        /\ Returned(t)
        /\ InferenceFailed(t)
        /\ ret[t].kind = "Err"
        /\ \E i \in DOMAIN analysis_results :
           \E k \in 1..Len(analysis_results[i]) :
              /\ analysis_results[i][k] = ResultOf(t)
              /\ analysis_results[i][k].status = "Failed"

\* ------------------------------------------------------------------- C36
\* the answer has been interpreted and was well-formed JSON
Adopted == interpreted.stage = "output" /\ from_str(interpreted.ai_response) # None

\* the length of the top-level list `member` of a payload, 0 when the
\* payload is not an object, has no such member or has one that is not a list
ListLength(payload, member) ==
    IF payload.kind # "object" THEN 0
    ELSE IF payload[member] = None THEN 0
    ELSE IF Unwrap(payload[member]).kind # "array" THEN 0
    ELSE Len(Unwrap(payload[member]).items)

\* C36: when the answer parses as well-formed JSON, the payload is the
\* parsed value unchanged (nothing synthesized is added), and
\* insights_count / recommendations_count are the lengths of its top-level
\* "insights" / "recommendations" lists, or 0 for each one that is absent or
\* not a list; in both branches the counts equal the list lengths of the
\* final payload.
C36_JsonAdopted ==
    /\ Adopted
       => /\ interpreted.structured_result = Unwrap(interpreted.ai_response.json)
          /\ interpreted.structured_result.kind = "object"
             => /\ interpreted.structured_result.summary = None
                /\ interpreted.structured_result.data_points = None
                /\ interpreted.structured_result.original_data_sample = None
    /\ interpreted.stage = "output"
       => /\ interpreted.insights_count =
                ListLength(interpreted.structured_result, "insights")
          /\ interpreted.recommendations_count =
                ListLength(interpreted.structured_result, "recommendations")

\* an answer that holds keywords and parses to an object with two insights
\* and recommendations that are not a list has been interpreted
C36_Witness ==
    /\ Adopted
    /\ Has("pattern") /\ Has("optimize")
    /\ interpreted.structured_result.kind = "object"
    /\ interpreted.insights_count = 2
    /\ interpreted.structured_result.recommendations = Some(Scalar)
    /\ interpreted.recommendations_count = 0

\* ------------------------------------------------------------------- C37
\* the users who own the integration of that id
OwnersOf(id) == {x.user : x \in {y \in issued : y.id = id}}

\* C37: the per-user delete and per-user results operations enforce
\* ownership: for an existing integration whose owner differs from the
\* authenticated caller they answer FORBIDDEN and leave integrations and
\* analysis_results unchanged; for the owner, delete removes the integration
\* and its sequence; for an unknown id they answer NOT_FOUND.
C37_OwnershipEnforced ==
    [][(/\ reply' # reply
        /\ reply'.handler \in {"delete_user_integration", "get_user_integration_results"}
        /\ IsSome(reply'.user))
       => /\ OwnersOf(reply'.id) = {} => reply'.status = "NOT_FOUND"
          /\ (OwnersOf(reply'.id) # {} /\ reply'.user \notin OwnersOf(reply'.id))
             => /\ reply'.status = "FORBIDDEN"
                /\ UNCHANGED <<integrations, analysis_results, issued>>
          /\ (reply'.user \in OwnersOf(reply'.id)
              /\ reply'.handler = "delete_user_integration")
             => /\ reply'.status = "NO_CONTENT"
                /\ reply'.id \notin DOMAIN integrations'
                /\ reply'.id \notin DOMAIN analysis_results'
                /\ \A x \in issued' : x.id # reply'.id]_vars
====
